---- MODULE Spec2Model ----
(***************************************************************************)
(* Taskera AI browser client (frontend/src/js/main.js): the request        *)
(* orchestration of the chat form, the session (page load, login, sign-up, *)
(* logout) and the history and thread requests.  One state machine: the    *)
(* fields of                                                               *)
(* `state`, local storage, the DOM flags the handlers read and write, the  *)
(* asynchronous sendChatRequest calls that are suspended at an await, and  *)
(* the live timers.  Every action is one run of a handler or of the        *)
(* continuation of an await, from the event that starts it to the next     *)
(* await (JavaScript runs each of them to completion, promise reactions    *)
(* included, before the next event is taken).                              *)
(***************************************************************************)
EXTENDS Integers, Sequences, FiniteSets, TLC

(* ------------------------------------------------------------------ *)
(* CONFIG and the other literals of the source                        *)
(* ------------------------------------------------------------------ *)
MAX_FILES == 10
MAX_FILE_SIZE_MB == 10
MAX_RETRY_ATTEMPTS == 3
RETRY_DELAY_MS == 2000
REQUEST_TIMEOUT_MS == 60000
RATE_LIMIT_WAIT_MS == 3000
THROTTLE_MS == 1000
BYTES_PER_MB == 1048576
ALLOWED_EXTS == {".png", ".jpg", ".jpeg", ".pdf", ".txt", ".md", ".docx", ".doc"}

(* ------------------------------------------------------------------ *)
(* Bounds of the model                                                *)
(* ------------------------------------------------------------------ *)
\* sendChatRequest calls that may be suspended at the same time
MaxChains == 2
\* chat POSTs counted for one submission (the count saturates here)
MaxAttemptsTracked == 5
\* ids generateUUID hands out to staged files during one run
MaxFileIds == 11
\* PATCH / DELETE requests of threads that may be awaited at the same time
MaxThreadOps == 1
\* ids generateUUID hands out to staged files during one run of the composing model
MaxComposeIds == 3

(* ------------------------------------------------------------------ *)
(* Values                                                             *)
(* ------------------------------------------------------------------ *)
Null == "null"
\* the value of a property the object does not have (falsy, like null), and the
\* string localStorage.setItem stores for it
Undefined == "undefined"
UndefinedStr == "'undefined'"
\* if (v): v is neither null nor undefined (no empty string occurs)
Truthy(v) == v \notin {Null, Undefined}
NoCtrl == 0
ThreadIds == {"T1", "T2"}
\* user ids: a guest id is 'guest_' + uuid, an account id comes from the backend
NullUser == [kind |-> "null", n |-> 0]
GuestUser(n) == [kind |-> "guest_", n |-> n]
\* generateUUID for a guest id: an id that differs from the one in use
FreshGuest(cur) == IF cur = GuestUser(1) THEN GuestUser(2) ELSE GuestUser(1)
AccountUser == [kind |-> "user", n |-> 1]
UndefinedUser == [kind |-> Undefined, n |-> 0]
UndefinedStrUser == [kind |-> UndefinedStr, n |-> 0]
\* if (id) for a user id
TruthyUser(u) == u.kind \notin {Null, Undefined}
\* String(v), as localStorage.setItem and FormData.append convert their argument
ToStr(v) == IF v = Undefined THEN UndefinedStr ELSE v
UserToStr(u) == IF u = UndefinedUser THEN UndefinedStrUser ELSE u
Email == "a@b.c"
\* what the user may have in the input box; Trim is String.prototype.trim
Inputs == {"", " ", "hi"}
Trim(s) == IF s = " " THEN "" ELSE s
\* HTTP statuses the backend may answer a chat POST with
Statuses == {200, 401, 402, 429, 500, 503, 504}
ResponseOk(status) == status >= 200 /\ status <= 299

VARIABLES
    currentUserId,      \* state.currentUserId
    authToken,          \* state.authToken
    currentThreadId,    \* state.currentThreadId
    stagedFiles,        \* state.stagedFiles: sequence of [id, file]
    isLoginMode,        \* state.isLoginMode
    isProcessing,       \* state.isProcessing
    retryCount,         \* state.retryCount
    abortController,    \* state.abortController: NoCtrl or the id of a controller
    isOnline,           \* state.isOnline
    lastRequestAge,     \* Date.now() - state.lastRequestTime, saturated at THROTTLE_MS
    storage,            \* localStorage: the four KEYS
    inputText,          \* dom.userInput.value
    controlsDisabled,   \* dom.userInput/sendButton/chatUploadBtn .disabled
    authModalOpen,      \* dom.authModal is not 'hidden'
    authError,          \* text shown in dom.authErrorMsg, Null when hidden
    chains,             \* the sendChatRequest calls suspended at an await
    timeoutTimers,      \* controllers of the attempts whose REQUEST_TIMEOUT_MS timer is live
    nextFileId,         \* generateUUID: ids handed out to staged files so far
    threadFromBackend,  \* history: currentThreadId holds a data.thread_id of a chat response
    authPending,        \* endpoint of the auth request handleAuthSubmit awaits ("none": no request)
    authHideTimer,      \* a 300 ms timer of hideAuthModal is live
    historyPending,     \* a GET /api/history of fetchHistory is awaited
    historyVisible,     \* dom.historySection is not 'hidden'
    historyList,        \* thread ids of the entries rendered in dom.historyList
    historyTimer,       \* a 1500 ms timer of the history refresh after a new thread is live
    threadLoads,        \* threads whose GET /api/threads/<id> of loadThread is awaited
    modalOpen,          \* dom.taskeraModal is not 'hidden'
    modalCallback,      \* state.modalCallback: NoCallback or the call it makes
    modalCloseTimer,    \* a 200 ms timer of closeModal is live
    threadOps,          \* the PATCH / DELETE requests of threads that are awaited
    confirmDisabled,    \* dom.taskeraModalConfirm.disabled
    sinceNewSession,    \* history: no chat POST and no loadThread since handleNewSession ran
    ev                  \* the handler that ran last and what it showed

vars == <<currentUserId, authToken, currentThreadId, stagedFiles, isLoginMode,
          isProcessing, retryCount, abortController, isOnline, lastRequestAge,
          storage, inputText, controlsDisabled, authModalOpen, authError,
          chains, timeoutTimers, nextFileId, threadFromBackend, authPending,
          authHideTimer, historyPending, historyVisible, historyList, historyTimer,
          threadLoads,
          modalOpen, modalCallback, modalCloseTimer, threadOps, confirmDisabled,
          sinceNewSession, ev>>

sessionVars == <<currentUserId, authToken, storage>>
authModalVars == <<isLoginMode, authModalOpen, authError>>
fileVars == <<stagedFiles, nextFileId>>
threadVars == <<currentThreadId, threadFromBackend>>
authReqVars == <<authPending, authHideTimer>>
historyVars == <<historyPending, historyVisible, historyList, historyTimer, threadLoads>>
modalVars == <<modalOpen, modalCallback, modalCloseTimer, threadOps, confirmDisabled>>
\* what the chat handlers that touch neither the history nor a modal leave alone
pageVars == <<authReqVars, historyVars, modalVars, sinceNewSession>>

(* ------------------------------------------------------------------ *)
(* Files the user can pick                                            *)
(* ------------------------------------------------------------------ *)
\* a File: its name as the segments name.split('.') yields, and its size in bytes
FileA == [name |-> <<"report", "pdf">>, size |-> 1]
FileB == [name |-> <<"scan", "v2", "PNG">>, size |-> 10485760]
FileBig == [name |-> <<"movie", "txt">>, size |-> 10485761]
FileExe == [name |-> <<"setup", "exe">>, size |-> 1]
FileNoExt == [name |-> <<"README">>, size |-> 1]
\* String.prototype.toLowerCase on the segments that occur
ToLowerCase(s) ==
    CASE s = "PNG" -> "png"
      [] s = "README" -> "readme"
      [] OTHER -> s
\* "." + s on the segments that occur
WithDot(s) ==
    CASE s = "pdf" -> ".pdf"
      [] s = "png" -> ".png"
      [] s = "txt" -> ".txt"
      [] s = "exe" -> ".exe"
      [] s = "readme" -> ".readme"
      [] OTHER -> "."
\* "." + file.name.split('.').pop().toLowerCase()
FileExt(file) == WithDot(ToLowerCase(file.name[Len(file.name)]))
\* a staging that accepts every size
TooLarge_Never(file) == FALSE
\* file.size / (1024 * 1024) > CONFIG.MAX_FILE_SIZE_MB, without the division
TooLarge(file) == file.size > MAX_FILE_SIZE_MB * BYTES_PER_MB
\* a staging that accepts every extension
Unsupported_Never(file) == FALSE
\* !CONFIG.ALLOWED_EXTS.includes(ext)
Unsupported(file) == FileExt(file) \notin ALLOWED_EXTS
\* a count check that forgets the files already staged
TooManyFiles_BatchOnly(staged, files) == Len(files) > MAX_FILES
\* state.stagedFiles.length + files.length > CONFIG.MAX_FILES
TooManyFiles(staged, files) == Len(staged) + Len(files) > MAX_FILES

(* ------------------------------------------------------------------ *)
(* Records                                                            *)
(* ------------------------------------------------------------------ *)
\* what a handler run did: its name, the response status it handled (0: none),
\* the messages it added to the chat log, whether it started a chat POST (and then
\* the request), and for a continuation of sendChatRequest the POSTs its submission
\* had made; cleared: it removed every message the chat log held (before it added
\* the messages that follow the removal); user: the user messages it added to the
\* chat log (msgs are the system messages); rendered: the thread whose stored
\* messages it rendered into the chat log
Ev(op, status, msgs, posted) ==
    [op |-> op, status |-> status, msgs |-> msgs, posted |-> posted, req |-> <<>>,
     attempts |-> 0, api |-> <<>>, cleared |-> FALSE, user |-> <<>>, rendered |-> Null]
\* a request to an endpoint other than /api/chat: its endpoint and method, the
\* token of its Authorization header (NoHeader: it has none) and its user_id
NoHeader == "none"
\* state.modalCallback: the handler it calls, its thread, and whether the history
\* entry it holds (data.element) has been replaced by a later rendering of the list
NoCallback == [type |-> "none", thread |-> Null, stale |-> FALSE]
Callback(type, t) == [type |-> type, thread |-> t, stale |-> FALSE]
\* renderHistoryList: dom.historyList.innerHTML = '' detaches the entries held
Detached(cb) == IF cb.type = "none" THEN cb ELSE [cb EXCEPT !.stale = TRUE]
Api(endpoint, token, user) == [endpoint |-> endpoint, token |-> token, user_id |-> user]
EvOf(c, op, status, msgs) == [Ev(op, status, msgs, FALSE) EXCEPT !.attempts = c.attempts]

RetryMsg(k) ==
    CASE k = 1 -> "Timeout/Busy. Retrying (1/3)..."
      [] k = 2 -> "Timeout/Busy. Retrying (2/3)..."
      [] OTHER -> "Timeout/Busy. Retrying (3/3)..."

\* a form that is filled after clearStagedFiles()
PostedFiles_None(staged) == <<>>
\* state.stagedFiles.forEach(f => formData.append('files', f.file))
PostedFiles(staged) == [i \in 1..Len(staged) |-> staged[i].file]

\* the multipart body and the headers of a chat POST
Request(message) ==
    [query |-> message,
     user_id |-> UserToStr(currentUserId),
     thread_id |-> currentThreadId,
     token |-> IF Truthy(authToken) THEN authToken ELSE NoHeader,
     email |-> storage.email,
     files |-> PostedFiles(stagedFiles)]

\* new AbortController(): a controller no pending fetch, live timer or state field holds
UsedCtrls == {c.ctrl : c \in chains} \cup timeoutTimers \cup {abortController}
NewCtrl == CHOOSE i \in 1..(2 * MaxChains + 1) : i \notin UsedCtrls
NewCid == CHOOSE i \in 1..MaxChains : i \notin {c.cid : c \in chains}

Saturate(n, cap) == IF n < cap THEN n ELSE cap

(* ------------------------------------------------------------------ *)
(* Init: the state after init() when the page has loaded               *)
(* ------------------------------------------------------------------ *)
\* local storage as a page load may find it
StoredSessions ==
    {[token |-> Null, userId |-> NullUser, email |-> Null, guestId |-> NullUser],
     [token |-> Null, userId |-> NullUser, email |-> Null, guestId |-> GuestUser(1)],
     [token |-> "tok", userId |-> AccountUser, email |-> Email, guestId |-> GuestUser(1)]}

\* handleGoogleLoginRedirect: the page was opened by the redirect of a Google
\* login (google_auth=success with token, email and user id) or without parameters
GoogleStorage(st) == [st EXCEPT !.token = "tok", !.userId = AccountUser, !.email = Email]
StorageAtLoad(st, google) == IF google THEN GoogleStorage(st) ELSE st

\* loadSession
LoadedToken(st) == IF st.token # Null /\ st.userId # NullUser THEN st.token ELSE Null
\* a loadSession that generates a guest id whether or not one is stored
LoadedGuest_Fresh(st) == FreshGuest(st.guestId)
\* the stored guest id, or 'guest_' + generateUUID() when none is stored
LoadedGuest(st) == IF st.guestId # NullUser THEN st.guestId ELSE GuestUser(1)
LoadedUser(st) ==
    IF st.token # Null /\ st.userId # NullUser THEN st.userId ELSE LoadedGuest(st)
LoadedStorage(st) ==
    IF st.token # Null /\ st.userId # NullUser THEN st
    ELSE [st EXCEPT !.guestId = LoadedGuest(st)]

\* init(): handleGoogleLoginRedirect, then loadSession, on the storage st
PageLoad(st, google) ==
    LET at == StorageAtLoad(st, google) IN
    [currentUserId |-> LoadedUser(at),
     authToken |-> LoadedToken(at),
     storage |-> LoadedStorage(at),
     \* fetchHistory() of the redirect handler and of loadSession
     historyPending |-> LoadedToken(at) # Null,
     msgs |-> IF google THEN <<"Successfully logged in with Google!">> ELSE <<>>]

Init ==
    \E st \in StoredSessions, google \in BOOLEAN :
        /\ currentUserId = PageLoad(st, google).currentUserId
        /\ authToken = PageLoad(st, google).authToken
        /\ storage = PageLoad(st, google).storage
        /\ historyPending = PageLoad(st, google).historyPending
        /\ ev = Ev("init", 0, PageLoad(st, google).msgs, FALSE)
        /\ currentThreadId = Null
        /\ stagedFiles = <<>>
        /\ isLoginMode = TRUE
        /\ isProcessing = FALSE
        /\ retryCount = 0
        /\ abortController = NoCtrl
        \* navigator.onLine: the page is loaded online, OnlineChange takes it offline
        /\ isOnline = TRUE
        /\ lastRequestAge = THROTTLE_MS
        /\ inputText = ""
        /\ controlsDisabled = FALSE
        /\ authModalOpen = FALSE
        /\ authError = Null
        /\ chains = {}
        /\ timeoutTimers = {}
        /\ nextFileId = 1
        /\ threadFromBackend = FALSE
        /\ authPending = "none"
        /\ authHideTimer = FALSE
        /\ historyVisible = FALSE
        /\ historyList = {}
        /\ historyTimer = FALSE
        /\ threadLoads = {}
        /\ modalOpen = FALSE
        /\ modalCallback = NoCallback
        /\ modalCloseTimer = FALSE
        /\ threadOps = {}
        /\ confirmDisabled = FALSE
        /\ sinceNewSession = FALSE

(* ------------------------------------------------------------------ *)
(* fetchHistory, up to its await fetch(...)                           *)
(* ------------------------------------------------------------------ *)
\* if (!state.authToken || !dom.historyList || !state.currentUserId) return
HistorySends(token, user) == Truthy(token) /\ TruthyUser(user)
\* the GET /api/history request of a call made with the given session
HistoryApi(token, user) ==
    IF HistorySends(token, user) THEN <<Api("GET /api/history", token, user)>> ELSE <<>>
\* a request is awaited after the call if it sent one or one was awaited before
HistoryAfterFetch(token, user) == HistorySends(token, user) \/ historyPending

(* ------------------------------------------------------------------ *)
(* cancelOngoingRequest, and what AbortController.abort() sets off    *)
(* ------------------------------------------------------------------ *)
\* the fetches that use the signal of controller k: abort() rejects them with an
\* AbortError, and the catch block and the finally block of their sendChatRequest
\* run as promise reactions before the next event
FetchesOn(k) == {c \in chains : c.pc = "fetch" /\ c.ctrl = k}
\* a cancelOngoingRequest that finds no controller to abort
CancelHits_Never == FALSE
\* if (state.abortController)
CancelHits == abortController # NoCtrl
CancelledChains == IF CancelHits THEN FetchesOn(abortController) ELSE {}
\* the chat-log message of cancelOngoingRequest, and the one of the catch block
\* of the call it aborts (added after the handler that cancelled has returned)
CancelMsgs == IF CancelHits THEN <<"Request cancelled">> ELSE <<>>
AbortedMsgs == IF CancelledChains # {} THEN <<"Request timed out">> ELSE <<>>
\* a cancelOngoingRequest that calls setProcessing(false) outside its if
AfterCancel_Always(flag) == FALSE
\* setProcessing(false) of cancelOngoingRequest (and of the finally block), on
\* state.isProcessing and on the disabled flag of the controls
AfterCancel(flag) == IF CancelHits THEN FALSE ELSE flag
ProcessingAfterCancel == AfterCancel(isProcessing)
DisabledAfterCancel == AfterCancel(controlsDisabled)
\* a catch block that leaves the timer of the aborted call armed
TimersAfterCancel_Kept == timeoutTimers
\* clearTimeout(timeoutId) of the catch block of each aborted call
TimersAfterCancel == timeoutTimers \ {c.ctrl : c \in CancelledChains}

(* ------------------------------------------------------------------ *)
(* sendChatRequest, up to its await fetch(...)                        *)
\* addMessageToChat('user', message, ...) of sendChatRequest
UserMessages(message) == <<message>>

(* ------------------------------------------------------------------ *)
\* the call made for chain `old` (a retry) or for a new submission (old = {}):
\* the POST is built from the state as it is now, the input and the staged files
\* are cleared, a new controller and its timeout timer are installed
SendChatRequest(op, old, cid, message, hasFiles, attempts) ==
    /\ chains' = (chains \ old) \cup
          {[cid |-> cid, pc |-> "fetch", message |-> message, hasFiles |-> hasFiles,
            ctrl |-> NewCtrl, status |-> 0, attempts |-> attempts, delay |-> 0]}
    /\ inputText' = ""
    /\ stagedFiles' = <<>>
    /\ isProcessing' = TRUE
    /\ controlsDisabled' = TRUE
    /\ abortController' = NewCtrl
    /\ timeoutTimers' = timeoutTimers \cup {NewCtrl}
    /\ sinceNewSession' = FALSE
    /\ ev' = [Ev(op, 0, <<>>, TRUE) EXCEPT !.req = <<Request(message)>>,
                                          !.user = UserMessages(message)]

(* ------------------------------------------------------------------ *)
(* handleChatSubmit                                                   *)
(* ------------------------------------------------------------------ *)
\* a submit handler that does not look at state.isOnline
SubmitOffline_Never == FALSE
\* if (!state.isOnline)
SubmitOffline == ~isOnline
\* if (state.isProcessing)
SubmitBusy == isProcessing
\* a submit handler without the throttle
Throttled_Never == FALSE
\* now - state.lastRequestTime < 1000
Throttled == lastRequestAge < THROTTLE_MS

HandleChatSubmit(op) ==
    LET message == Trim(inputText)
        hasFiles == Len(stagedFiles) > 0
    IN
    IF SubmitOffline THEN
        /\ ev' = Ev(op, 0, <<"No internet connection.">>, FALSE)
        /\ UNCHANGED <<sessionVars, authModalVars, fileVars, threadVars,
                       isProcessing, retryCount, abortController, isOnline,
                       lastRequestAge, inputText, controlsDisabled, chains,
                       timeoutTimers, pageVars>>
    ELSE IF SubmitBusy THEN
        /\ chains' = chains \ CancelledChains
        /\ timeoutTimers' = TimersAfterCancel
        /\ isProcessing' = ProcessingAfterCancel
        /\ controlsDisabled' = DisabledAfterCancel
        /\ abortController' = NoCtrl
        /\ ev' = Ev(op, 0, CancelMsgs \o AbortedMsgs, FALSE)
        /\ UNCHANGED <<sessionVars, authModalVars, fileVars, threadVars,
                       retryCount, isOnline, lastRequestAge, inputText, pageVars>>
    ELSE IF message = "" /\ ~hasFiles THEN
        /\ ev' = Ev(op, 0, <<>>, FALSE)
        /\ UNCHANGED <<sessionVars, authModalVars, fileVars, threadVars,
                       isProcessing, retryCount, abortController, isOnline,
                       lastRequestAge, inputText, controlsDisabled, chains,
                       timeoutTimers, pageVars>>
    ELSE IF Throttled THEN
        /\ ev' = Ev(op, 0, <<"Please wait a moment before sending another message">>, FALSE)
        /\ UNCHANGED <<sessionVars, authModalVars, fileVars, threadVars,
                       isProcessing, retryCount, abortController, isOnline,
                       lastRequestAge, inputText, controlsDisabled, chains,
                       timeoutTimers, pageVars>>
    ELSE
        /\ Cardinality(chains) < MaxChains
        /\ lastRequestAge' = 0
        /\ retryCount' = 0
        /\ SendChatRequest(op, {}, NewCid, message, hasFiles, 1)
        /\ UNCHANGED <<sessionVars, authModalVars, nextFileId, threadVars, isOnline,
                       authReqVars, historyVars, modalVars>>

\* the 'submit' event of dom.chatForm
Submit == HandleChatSubmit("submit")

\* keydown Enter (without Shift) in dom.userInput
EnterKey ==
    /\ ~isProcessing
    /\ HandleChatSubmit("enter")

(* ------------------------------------------------------------------ *)
(* handleLogout, handleNewSession, showAuthModal: their assignments   *)
(* ------------------------------------------------------------------ *)
\* a handleLogout that forgets removeItem(KEYS.USER_EMAIL)
LogoutStorage_KeepsEmail ==
    [token |-> Null, userId |-> NullUser, email |-> storage.email,
     guestId |-> FreshGuest(storage.guestId)]
\* localStorage after handleLogout: three keys removed, a new guest id stored
LogoutStorage ==
    [token |-> Null, userId |-> NullUser, email |-> Null,
     guestId |-> FreshGuest(storage.guestId)]

\* finally { setProcessing(false) } of a sendChatRequest that ends
Finally ==
    /\ isProcessing' = FALSE
    /\ controlsDisabled' = FALSE

\* showAuthModal(isLogin, msg)
ShowAuthModal(isLogin, msg) ==
    /\ isLoginMode' = isLogin
    /\ authModalOpen' = TRUE
    /\ authError' = msg

(* ------------------------------------------------------------------ *)
(* sendChatRequest, from the response of fetch on                     *)
(* ------------------------------------------------------------------ *)
\* status checks that test 503 only
ResponseClass_No504(status) ==
    CASE status = 402 -> "quota"
      [] status = 401 -> "auth"
      [] status = 429 -> "rate"
      [] status = 503 -> "busy"
      [] OTHER -> "body"
\* status checks that send a 429 down the retry branch
ResponseClass_Retry429(status) ==
    CASE status = 402 -> "quota"
      [] status = 401 -> "auth"
      [] status = 429 \/ status = 503 \/ status = 504 -> "busy"
      [] OTHER -> "body"
\* the branch of the status checks a response takes
ResponseClass(status) ==
    CASE status = 402 -> "quota"
      [] status = 401 -> "auth"
      [] status = 429 -> "rate"
      [] status = 503 \/ status = 504 -> "busy"
      [] OTHER -> "body"

\* a retry test that lets one retry more through
MayRetry_AtMax == retryCount <= MAX_RETRY_ATTEMPTS
\* state.retryCount < CONFIG.MAX_RETRY_ATTEMPTS
MayRetry == retryCount < MAX_RETRY_ATTEMPTS
\* CONFIG.RETRY_DELAY_MS * state.retryCount, after state.retryCount++
RetryDelay(count) == RETRY_DELAY_MS * count

\* a continuation that leaves state.abortController as it is
SettledCtrl_Kept == abortController
\* state.abortController = null once the fetch has resolved
SettledCtrl == NoCtrl

\* fetch resolves with a response of the given status
ChatResponse(c, status) ==
    /\ c \in chains
    /\ c.pc = "fetch"
    /\ timeoutTimers' = timeoutTimers \ {c.ctrl}
    /\ abortController' = SettledCtrl
    /\ UNCHANGED <<isOnline, lastRequestAge, nextFileId, authReqVars, modalVars>>
    /\ CASE ResponseClass(status) = "quota" ->
              /\ chains' = chains \ {c}
              /\ ShowAuthModal(FALSE, "Quota Exceeded")
              /\ Finally
              /\ ev' = EvOf(c, "response", status,
                          <<"Free trial limit reached. Please sign in.">>)
              /\ UNCHANGED <<sessionVars, threadVars, stagedFiles, retryCount,
                             inputText, historyVars, sinceNewSession>>
         [] ResponseClass(status) = "auth" ->
              /\ chains' = chains \ {c}
              /\ storage' = LogoutStorage
              /\ authToken' = Null
              /\ currentUserId' = LogoutStorage.guestId
              /\ stagedFiles' = <<>>
              /\ inputText' = ""
              /\ retryCount' = 0
              /\ currentThreadId' = Null
              /\ threadFromBackend' = FALSE
              /\ historyVisible' = FALSE
              /\ sinceNewSession' = TRUE
              /\ UNCHANGED <<historyPending, historyList, historyTimer, threadLoads>>
              /\ ShowAuthModal(TRUE, "Session expired. Log in again.")
              /\ Finally
              /\ ev' = [EvOf(c, "response", status, <<"Logged out successfully">>)
                          EXCEPT !.cleared = TRUE]
         [] ResponseClass(status) = "rate" ->
              /\ chains' = (chains \ {c}) \cup
                    {[c EXCEPT !.pc = "wait429", !.delay = RATE_LIMIT_WAIT_MS]}
              /\ ev' = EvOf(c, "response", status,
                          <<"Rate limit exceeded. Waiting 3s...">>)
              /\ UNCHANGED <<sessionVars, authModalVars, threadVars, stagedFiles,
                             retryCount, inputText, isProcessing, controlsDisabled,
                             historyVars, sinceNewSession>>
         [] ResponseClass(status) = "busy" ->
              IF MayRetry THEN
                  /\ retryCount' = retryCount + 1
                  /\ chains' = (chains \ {c}) \cup
                        {[c EXCEPT !.pc = "retryWait",
                                   !.delay = RetryDelay(retryCount + 1)]}
                  /\ ev' = EvOf(c, "response", status, <<RetryMsg(retryCount + 1)>>)
                  /\ UNCHANGED <<sessionVars, authModalVars, threadVars,
                                 stagedFiles, inputText, isProcessing, controlsDisabled,
                                 historyVars, sinceNewSession>>
              ELSE
                  /\ retryCount' = 0
                  /\ chains' = chains \ {c}
                  /\ Finally
                  /\ ev' = EvOf(c, "response", status,
                              <<"Service unavailable. Please try again later.">>)
                  /\ UNCHANGED <<sessionVars, authModalVars, threadVars,
                                 stagedFiles, inputText, historyVars, sinceNewSession>>
         [] OTHER ->
              /\ chains' = (chains \ {c}) \cup {[c EXCEPT !.pc = "json", !.status = status]}
              /\ ev' = EvOf(c, "response", status, <<>>)
              /\ UNCHANGED <<sessionVars, authModalVars, threadVars, stagedFiles,
                             retryCount, inputText, isProcessing, controlsDisabled,
                             historyVars, sinceNewSession>>

\* await response.json() settles: the body does not parse, or it is `data` with
\* data.thread_id = tid (Null: absent)
ChatBody(c, parsed, tid) ==
    /\ c \in chains
    /\ c.pc = "json"
    /\ chains' = chains \ {c}
    /\ Finally
    /\ UNCHANGED <<sessionVars, authModalVars, fileVars, isOnline, lastRequestAge,
                   inputText, authReqVars, modalVars, sinceNewSession, historyPending,
                   historyVisible, historyList, threadLoads>>
    /\ IF parsed /\ ResponseOk(c.status) THEN
           /\ currentThreadId' = IF tid # Null THEN tid ELSE currentThreadId
           \* if (isNewThread && state.authToken) setTimeout(() => fetchHistory(), 1500)
           /\ historyTimer' = IF tid # Null /\ ~Truthy(currentThreadId) /\ Truthy(authToken)
                               THEN TRUE ELSE historyTimer
           /\ threadFromBackend' = IF tid # Null THEN TRUE ELSE threadFromBackend
           /\ retryCount' = 0
           /\ ev' = EvOf(c, "body", c.status, <<"ai">>)
           /\ UNCHANGED <<abortController, timeoutTimers>>
       ELSE
           \* catch (error): not an AbortError
           /\ timeoutTimers' = timeoutTimers \ {c.ctrl}
           /\ abortController' = NoCtrl
           /\ ev' = EvOf(c, "body", c.status, <<"Error: ...">>)
           /\ UNCHANGED <<threadVars, retryCount, historyTimer>>

\* fetch rejects: the network failed (a TypeError, not an AbortError)
NetworkError(c) ==
    /\ c \in chains
    /\ c.pc = "fetch"
    /\ chains' = chains \ {c}
    /\ timeoutTimers' = timeoutTimers \ {c.ctrl}
    /\ abortController' = NoCtrl
    /\ Finally
    /\ ev' = EvOf(c, "networkError", 0, <<"Error: ...">>)
    /\ UNCHANGED <<sessionVars, authModalVars, fileVars, threadVars, retryCount,
                   isOnline, lastRequestAge, inputText, pageVars>>

\* a timeout callback that aborts nothing
TimeoutTarget_None == NoCtrl
\* the controller the timeout callback aborts: state.abortController
TimeoutTarget == abortController

\* the REQUEST_TIMEOUT_MS timer armed for the attempt of controller k fires
TimeoutFire(k) ==
    /\ k \in timeoutTimers
    /\ LET hit == IF TimeoutTarget # NoCtrl THEN FetchesOn(TimeoutTarget) ELSE {}
       IN
       /\ chains' = chains \ hit
       /\ timeoutTimers' = (timeoutTimers \ {k}) \ {c.ctrl : c \in hit}
       /\ abortController' = IF hit # {} THEN NoCtrl ELSE abortController
       /\ isProcessing' = IF hit # {} THEN FALSE ELSE isProcessing
       /\ controlsDisabled' = IF hit # {} THEN FALSE ELSE controlsDisabled
       /\ ev' = IF hit # {}
                THEN EvOf(CHOOSE c \in hit : TRUE, "timeout", 0, <<"Request timed out">>)
                ELSE Ev("timeout", 0, <<>>, FALSE)
    /\ UNCHANGED <<sessionVars, authModalVars, fileVars, threadVars, retryCount,
                   isOnline, lastRequestAge, inputText, pageVars>>

\* the 3000 ms wait after a 429 ends
RateLimitTimer(c) ==
    /\ c \in chains
    /\ c.pc = "wait429"
    /\ chains' = chains \ {c}
    /\ Finally
    /\ ev' = EvOf(c, "rateLimitTimer", 0, <<>>)
    /\ UNCHANGED <<sessionVars, authModalVars, fileVars, threadVars, retryCount,
                   abortController, timeoutTimers, isOnline, lastRequestAge, inputText,
                   pageVars>>

\* the wait before a retry ends: return await sendChatRequest(message, hasFiles)
RetryTimer(c) ==
    /\ c \in chains
    /\ c.pc = "retryWait"
    /\ SendChatRequest("retry", {c}, c.cid, c.message, c.hasFiles,
                       Saturate(c.attempts + 1, MaxAttemptsTracked))
    /\ UNCHANGED <<sessionVars, authModalVars, nextFileId, threadVars, retryCount,
                   isOnline, lastRequestAge, authReqVars, historyVars, modalVars>>

(* ------------------------------------------------------------------ *)
(* The other handlers                                                 *)
(* ------------------------------------------------------------------ *)
\* cancelOngoingRequest as the first statement of a handler
CancelOngoingRequest ==
    /\ chains' = chains \ CancelledChains
    /\ timeoutTimers' = TimersAfterCancel
    /\ isProcessing' = ProcessingAfterCancel
    /\ controlsDisabled' = DisabledAfterCancel
    /\ abortController' = NoCtrl

\* handleNewSession, called with the session (token, user) of that moment
NewSession(token, user) ==
    /\ CancelOngoingRequest
    /\ stagedFiles' = <<>>
    /\ inputText' = ""
    /\ retryCount' = 0
    /\ currentThreadId' = Null
    /\ threadFromBackend' = FALSE
    /\ sinceNewSession' = TRUE
    \* if (state.authToken) fetchHistory()
    /\ historyPending' = HistoryAfterFetch(token, user)
    /\ UNCHANGED <<nextFileId, historyTimer, threadLoads>>

\* click on dom.newSessionBtn
HandleNewSession ==
    /\ NewSession(authToken, currentUserId)
    /\ ev' = [Ev("newSession", 0, CancelMsgs \o AbortedMsgs, FALSE)
                EXCEPT !.api = HistoryApi(authToken, currentUserId), !.cleared = TRUE]
    /\ UNCHANGED <<sessionVars, authModalVars, isOnline, lastRequestAge, authReqVars,
                   modalVars, historyVisible, historyList>>

\* click on dom.logoutBtn
HandleLogout ==
    /\ CancelOngoingRequest
    /\ storage' = LogoutStorage
    /\ authToken' = Null
    /\ currentUserId' = LogoutStorage.guestId
    /\ stagedFiles' = <<>>
    /\ inputText' = ""
    /\ retryCount' = 0
    /\ currentThreadId' = Null
    /\ threadFromBackend' = FALSE
    /\ sinceNewSession' = TRUE
    \* dom.historySection.classList.add('hidden')
    /\ historyVisible' = FALSE
    /\ ev' = [Ev("logout", 0,
                   CancelMsgs \o <<"Logged out successfully">> \o AbortedMsgs, FALSE)
                EXCEPT !.cleared = TRUE]
    /\ UNCHANGED <<authModalVars, nextFileId, isOnline, lastRequestAge, authReqVars,
                   modalVars, historyPending, historyList, historyTimer, threadLoads>>

\* an entry of thread t is on screen: its button, its Rename and its Delete option
EntryShown(t) == historyVisible /\ t \in historyList

\* click on the history entry of thread t: loadThread(t) up to its await fetch(...)
LoadThread(t) ==
    /\ EntryShown(t)
    /\ currentThreadId # t
    /\ CancelOngoingRequest
    /\ currentThreadId' = t
    /\ threadFromBackend' = FALSE
    /\ sinceNewSession' = FALSE
    /\ historyPending' = HistoryAfterFetch(authToken, currentUserId)
    /\ threadLoads' = threadLoads \cup {t}
    /\ ev' = [Ev("loadThread", 0,
                  CancelMsgs \o <<"Loading conversation...">> \o AbortedMsgs, FALSE)
                EXCEPT !.api = HistoryApi(authToken, currentUserId) \o
                               <<Api("GET /api/threads", authToken, currentUserId)>>,
                       !.cleared = TRUE]
    /\ UNCHANGED <<sessionVars, authModalVars, fileVars, retryCount, isOnline,
                   lastRequestAge, inputText, authReqVars, modalVars, historyVisible,
                   historyList, historyTimer>>

\* what the GET /api/threads/<id> of loadThread comes to: a body with messages, a
\* body without, or a failure (status not ok, network error, 15 s timeout, bad JSON)
ThreadOutcomes == {"messages", "empty", "error"}

\* loadThread(t) from the settling of its fetch on; `last`: no other GET for t is
\* awaited. dom.chatLog.innerHTML = '' runs once the body is parsed.
ThreadLoaded(t, outcome, last) ==
    /\ t \in threadLoads
    /\ threadLoads' = IF last THEN threadLoads \ {t} ELSE threadLoads
    /\ ev' = CASE outcome = "messages" ->
                    [Ev("threadResponse", 0, <<>>, FALSE)
                        EXCEPT !.cleared = TRUE, !.rendered = t]
                [] outcome = "empty" ->
                    [Ev("threadResponse", 0, <<"No messages found for this thread.">>,
                        FALSE) EXCEPT !.cleared = TRUE]
                [] OTHER ->
                    Ev("threadResponse", 0, <<"Error loading conversation history.">>,
                       FALSE)
    /\ UNCHANGED <<sessionVars, authModalVars, fileVars, threadVars, isProcessing,
                   retryCount, abortController, isOnline, lastRequestAge, inputText,
                   controlsDisabled, chains, timeoutTimers, authReqVars, modalVars,
                   historyPending, historyVisible, historyList, historyTimer,
                   sinceNewSession>>

\* the user edits dom.userInput (not possible while it is disabled)
TypeInput(text) ==
    /\ ~controlsDisabled
    /\ inputText # text
    /\ inputText' = text
    /\ ev' = Ev("input", 0, <<>>, FALSE)
    /\ UNCHANGED <<sessionVars, authModalVars, fileVars, threadVars, isProcessing,
                   retryCount, abortController, isOnline, lastRequestAge,
                   controlsDisabled, chains, timeoutTimers, pageVars>>

\* window 'online' / 'offline'
OnlineChange ==
    /\ isOnline' = ~isOnline
    /\ ev' = Ev("onlineChange", 0,
                IF isOnline
                THEN <<"You're offline. Messages will fail until reconnected.">>
                ELSE <<"Connection restored">>, FALSE)
    /\ UNCHANGED <<sessionVars, authModalVars, fileVars, threadVars, isProcessing,
                   retryCount, abortController, lastRequestAge, inputText,
                   controlsDisabled, chains, timeoutTimers, pageVars>>

\* a second passes since the last accepted submission
Tick ==
    /\ lastRequestAge < THROTTLE_MS
    /\ lastRequestAge' = THROTTLE_MS
    /\ ev' = Ev("tick", 0, <<>>, FALSE)
    /\ UNCHANGED <<sessionVars, authModalVars, fileVars, threadVars, isProcessing,
                   retryCount, abortController, isOnline, inputText,
                   controlsDisabled, chains, timeoutTimers, pageVars>>

(* ------------------------------------------------------------------ *)
(* fetchHistory from its response on, and the events that call it     *)
(* ------------------------------------------------------------------ *)
\* the outcomes of a GET /api/history: a body that lists threads, a body that
\* lists none (or success false), a failure (status not ok, network, timeout)
HistoryOutcomes == {"threads", "empty", "error"}

\* a pending GET /api/history settles; `last`: no other one is awaited (any number
\* of them can be, 'visibilitychange' sends one each time)
HistoryResponse(outcome, last) ==
    /\ historyPending
    /\ historyPending' = ~last
    /\ historyList' = IF outcome = "threads" THEN ThreadIds ELSE historyList
    /\ historyVisible' = CASE outcome = "threads" -> TRUE
                            [] outcome = "empty" -> FALSE
                            [] OTHER -> historyVisible
    /\ modalCallback' = IF outcome = "threads" THEN Detached(modalCallback)
                         ELSE modalCallback
    /\ threadOps' = IF outcome = "threads" THEN {Detached(o) : o \in threadOps}
                     ELSE threadOps
    /\ ev' = Ev("historyResponse", 0, <<>>, FALSE)
    /\ UNCHANGED <<sessionVars, authModalVars, fileVars, threadVars, isProcessing,
                   retryCount, abortController, isOnline, lastRequestAge, inputText,
                   controlsDisabled, chains, timeoutTimers, authReqVars, modalOpen,
                   modalCloseTimer, confirmDisabled, historyTimer, threadLoads, sinceNewSession>>

\* the 1500 ms timer set after the first response of a new thread fires:
\* fetchHistory(); `last`: no other such timer is live
HistoryTimerFire(last) ==
    /\ historyTimer
    /\ historyTimer' = ~last
    /\ historyPending' = HistoryAfterFetch(authToken, currentUserId)
    /\ ev' = [Ev("historyTimer", 0, <<>>, FALSE)
                EXCEPT !.api = HistoryApi(authToken, currentUserId)]
    /\ UNCHANGED <<sessionVars, authModalVars, fileVars, threadVars, isProcessing,
                   retryCount, abortController, isOnline, lastRequestAge, inputText,
                   controlsDisabled, chains, timeoutTimers, authReqVars, modalVars,
                   historyVisible, historyList, sinceNewSession>>

\* document 'visibilitychange' to visible: if (state.authToken) fetchHistory()
VisibilityChange ==
    /\ historyPending' = HistoryAfterFetch(authToken, currentUserId)
    /\ ev' = [Ev("visibilityChange", 0, <<>>, FALSE)
                EXCEPT !.api = HistoryApi(authToken, currentUserId)]
    /\ UNCHANGED <<sessionVars, authModalVars, fileVars, threadVars, isProcessing,
                   retryCount, abortController, isOnline, lastRequestAge, inputText,
                   controlsDisabled, chains, timeoutTimers, authReqVars, modalVars,
                   historyVisible, historyList, historyTimer, threadLoads, sinceNewSession>>

(* ------------------------------------------------------------------ *)
(* The auth modal and handleAuthSubmit                                *)
(* ------------------------------------------------------------------ *)
\* what the session handlers leave alone of the chat form
chatVars == <<stagedFiles, nextFileId, isProcessing, retryCount, abortController,
              isOnline, lastRequestAge, inputText, controlsDisabled, chains,
              timeoutTimers>>

\* click on dom.openLoginModalBtn (it lies under the modal while the modal is open)
OpenLoginModal ==
    /\ ~authModalOpen
    /\ ShowAuthModal(TRUE, Null)
    /\ ev' = Ev("openLoginModal", 0, <<>>, FALSE)
    /\ UNCHANGED <<sessionVars, threadVars, chatVars, pageVars>>

\* click on dom.closeAuthModal or on the backdrop: hideAuthModal
HideAuthModal ==
    /\ authModalOpen
    /\ authHideTimer' = TRUE
    /\ ev' = Ev("hideAuthModal", 0, <<>>, FALSE)
    /\ UNCHANGED <<sessionVars, authModalVars, threadVars, chatVars, authPending,
                   historyVars, modalVars, sinceNewSession>>

\* a 300 ms timer of hideAuthModal fires; `last`: no other one is live
AuthHideTimerFire(last) ==
    /\ authHideTimer
    /\ authHideTimer' = ~last
    /\ authModalOpen' = FALSE
    /\ authError' = Null
    /\ ev' = Ev("authHideTimer", 0, <<>>, FALSE)
    /\ UNCHANGED <<sessionVars, isLoginMode, threadVars, chatVars, authPending,
                   historyVars, modalVars, sinceNewSession>>

\* click on dom.authSwitchBtn: toggleAuthMode
ToggleAuthMode ==
    /\ authModalOpen
    /\ isLoginMode' = ~isLoginMode
    /\ authError' = Null
    /\ ev' = Ev("toggleAuthMode", 0, <<>>, FALSE)
    /\ UNCHANGED <<sessionVars, authModalOpen, threadVars, chatVars, pageVars>>

\* state.isLoginMode ? ENDPOINTS.AUTH_LOGIN : ENDPOINTS.AUTH_SIGNUP
AuthEndpoint == IF isLoginMode THEN "/auth/login" ELSE "/auth/signup"

\* 'submit' on dom.authForm (dom.authSubmitBtn is disabled while a request is
\* awaited); filled: both fields have a value
HandleAuthSubmit(filled) ==
    /\ authModalOpen
    /\ authPending = "none"
    /\ IF ~filled THEN
           /\ authError' = "Please fill in all fields"
           /\ ev' = Ev("authSubmit", 0, <<>>, FALSE)
           /\ UNCHANGED authPending
       ELSE
           /\ authError' = Null
           /\ authPending' = AuthEndpoint
           /\ ev' = [Ev("authSubmit", 0, <<>>, FALSE)
                       EXCEPT !.api = <<Api(AuthEndpoint, NoHeader, NullUser)>>]
    /\ UNCHANGED <<sessionVars, isLoginMode, authModalOpen, threadVars, chatVars,
                   authHideTimer, historyVars, modalVars, sinceNewSession>>

\* the bodies of a successful auth response: /auth/login answers with
\* access_token, user_id and email; what /auth/signup answers is the backend's
\* choice, with or without them
AuthBodies(endpoint) ==
    IF endpoint = "/auth/login" THEN {"credentials"} ELSE {"credentials", "plain"}
DataToken(body) == IF body = "credentials" THEN "tok" ELSE Undefined
DataUser(body) == IF body = "credentials" THEN AccountUser ELSE UndefinedUser
DataEmail(body) == IF body = "credentials" THEN Email ELSE Undefined

\* the auth request settles with a response that is ok and parses
AuthResponseOk(body) ==
    /\ authPending # "none"
    /\ body \in AuthBodies(authPending)
    /\ authPending' = "none"
    /\ IF isLoginMode THEN
           /\ authToken' = DataToken(body)
           /\ currentUserId' = DataUser(body)
           /\ storage' = [storage EXCEPT !.token = ToStr(DataToken(body)),
                                          !.userId = UserToStr(DataUser(body)),
                                          !.email = ToStr(DataEmail(body))]
           \* hideAuthModal(); fetchHistory()
           /\ authHideTimer' = TRUE
           /\ historyPending' = HistoryAfterFetch(DataToken(body), DataUser(body))
           /\ ev' = [Ev("authResponse", 200, <<"Logged in!">>, FALSE)
                       EXCEPT !.api = HistoryApi(DataToken(body), DataUser(body))]
           /\ UNCHANGED authModalVars
       ELSE
           /\ isLoginMode' = TRUE
           /\ authError' = "Account created! Please sign in."
           /\ ev' = Ev("authResponse", 200, <<>>, FALSE)
           /\ UNCHANGED <<sessionVars, authModalOpen, authHideTimer, historyPending>>
    /\ UNCHANGED <<threadVars, chatVars, historyVisible, historyList, historyTimer, threadLoads,
                   modalVars, sinceNewSession>>

\* the auth request fails: status not ok, network error, timeout, body not JSON
AuthResponseFail ==
    /\ authPending # "none"
    /\ authPending' = "none"
    /\ authError' = "Authentication failed"
    /\ ev' = Ev("authResponse", 400, <<>>, FALSE)
    /\ UNCHANGED <<sessionVars, isLoginMode, authModalOpen, threadVars, chatVars,
                   authHideTimer, historyVars, modalVars, sinceNewSession>>

(* ------------------------------------------------------------------ *)
(* The rename / delete modal and the thread requests                  *)
(* ------------------------------------------------------------------ *)
\* click on the Rename or Delete option of the entry of thread t: openModal
OpenModal(type, t) ==
    /\ EntryShown(t)
    /\ modalOpen' = TRUE
    /\ modalCallback' = Callback(type, t)
    /\ ev' = Ev("openModal", 0, <<>>, FALSE)
    /\ UNCHANGED <<sessionVars, authModalVars, threadVars, chatVars, authReqVars,
                   historyVars, modalCloseTimer, threadOps, confirmDisabled,
                   sinceNewSession>>

\* click on Cancel, on the close button or on the backdrop: closeModal
CloseModal ==
    /\ modalOpen
    /\ modalCloseTimer' = TRUE
    /\ ev' = Ev("closeModal", 0, <<>>, FALSE)
    /\ UNCHANGED <<sessionVars, authModalVars, threadVars, chatVars, authReqVars,
                   historyVars, modalOpen, modalCallback, threadOps, confirmDisabled,
                   sinceNewSession>>

\* a 200 ms timer of closeModal fires; `last`: no other one is live
ModalCloseTimerFire(last) ==
    /\ modalCloseTimer
    /\ modalCloseTimer' = ~last
    /\ modalOpen' = FALSE
    /\ modalCallback' = NoCallback
    /\ ev' = Ev("modalCloseTimer", 0, <<>>, FALSE)
    /\ UNCHANGED <<sessionVars, authModalVars, threadVars, chatVars, authReqVars,
                   historyVars, threadOps, confirmDisabled, sinceNewSession>>

\* the method of the request a callback sends
ThreadMethod(type) == IF type = "rename" THEN "PATCH /api/threads" ELSE "DELETE /api/threads"

\* state.modalCallback(): handleRenameThread / handleDeleteThread up to the await
\* fetch(...); titled: the rename input holds more than blanks
RunModalCallback(op, titled) ==
    /\ modalCallback # NoCallback
    /\ Cardinality(threadOps) < MaxThreadOps
    /\ IF modalCallback.type = "rename" /\ ~titled THEN
           /\ ev' = Ev(op, 0, <<>>, FALSE)
           /\ UNCHANGED <<threadOps, confirmDisabled>>
       ELSE
           /\ confirmDisabled' = TRUE
           /\ threadOps' = threadOps \cup {modalCallback}
           /\ ev' = [Ev(op, 0, <<>>, FALSE)
                       EXCEPT !.api = <<Api(ThreadMethod(modalCallback.type),
                                            authToken, currentUserId)>>]
    /\ UNCHANGED <<sessionVars, authModalVars, threadVars, chatVars, authReqVars,
                   historyVars, modalOpen, modalCallback, modalCloseTimer,
                   sinceNewSession>>

\* click on dom.taskeraModalConfirm
ConfirmClick ==
    /\ modalOpen
    /\ ~confirmDisabled
    /\ \E titled \in BOOLEAN : RunModalCallback("confirm", titled)

\* Enter while the rename input of the open modal has the focus
RenameEnterKey ==
    /\ modalOpen
    /\ modalCallback.type = "rename"
    /\ \E titled \in BOOLEAN : RunModalCallback("renameEnter", titled)

\* the PATCH of handleRenameThread settles
RenameResponse(o, ok) ==
    /\ o \in threadOps
    /\ o.type = "rename"
    /\ threadOps' = threadOps \ {o}
    /\ confirmDisabled' = FALSE
    /\ IF ok THEN
           \* closeModal(); fetchHistory()
           /\ modalCloseTimer' = TRUE
           /\ historyPending' = HistoryAfterFetch(authToken, currentUserId)
           /\ ev' = [Ev("renameResponse", 200, <<"Conversation renamed successfully">>,
                         FALSE)
                       EXCEPT !.api = HistoryApi(authToken, currentUserId)]
       ELSE
           /\ ev' = Ev("renameResponse", 400, <<>>, FALSE)
           /\ UNCHANGED <<modalCloseTimer, historyPending>>
    /\ UNCHANGED <<sessionVars, authModalVars, threadVars, chatVars, authReqVars,
                   historyVisible, historyList, historyTimer, threadLoads, modalOpen, modalCallback,
                   sinceNewSession>>

\* a test that takes every deleted thread for the current one
DeletedIsCurrent_Always(o) == TRUE
\* if (state.currentThreadId === threadId)
DeletedIsCurrent(o) == currentThreadId = o.thread

\* the DELETE of handleDeleteThread settles
DeleteResponse(o, ok) ==
    /\ o \in threadOps
    /\ o.type = "delete"
    /\ threadOps' = threadOps \ {o}
    /\ confirmDisabled' = FALSE
    /\ UNCHANGED <<sessionVars, authModalVars, isOnline, lastRequestAge, authReqVars,
                   historyVisible, modalOpen, modalCallback>>
    /\ IF ok THEN
           \* element.remove(): the entry leaves the list if it is still part of it
           /\ historyList' = IF o.stale THEN historyList ELSE historyList \ {o.thread}
           /\ modalCloseTimer' = TRUE
           /\ IF DeletedIsCurrent(o) THEN
                  /\ NewSession(authToken, currentUserId)
                  /\ ev' = [Ev("deleteResponse", 200,
                                CancelMsgs \o <<"Conversation deleted">> \o AbortedMsgs,
                                FALSE)
                              EXCEPT !.api = HistoryApi(authToken, currentUserId),
                                     !.cleared = TRUE]
              ELSE
                  /\ ev' = Ev("deleteResponse", 200, <<"Conversation deleted">>, FALSE)
                  /\ UNCHANGED <<threadVars, stagedFiles, nextFileId, isProcessing,
                                 retryCount, abortController, inputText,
                                 controlsDisabled, chains, timeoutTimers,
                                 historyPending, historyTimer, threadLoads, sinceNewSession>>
       ELSE
           /\ ev' = Ev("deleteResponse", 400, <<>>, FALSE)
           /\ UNCHANGED <<threadVars, stagedFiles, nextFileId, isProcessing,
                          retryCount, abortController, inputText, controlsDisabled,
                          chains, timeoutTimers, historyPending, historyList,
                          historyTimer, threadLoads, modalCloseTimer, sinceNewSession>>

(* ------------------------------------------------------------------ *)
(* Reloading the page                                                 *)
(* ------------------------------------------------------------------ *)
\* the page is loaded again: every handler, timer and request of the old page is
\* gone, and init() runs on the storage as it is
Reload ==
    /\ currentUserId' = PageLoad(storage, FALSE).currentUserId
    /\ authToken' = PageLoad(storage, FALSE).authToken
    /\ storage' = PageLoad(storage, FALSE).storage
    /\ historyPending' = PageLoad(storage, FALSE).historyPending
    /\ ev' = Ev("init", 0, <<>>, FALSE)
    /\ currentThreadId' = Null
    /\ stagedFiles' = <<>>
    /\ isLoginMode' = TRUE
    /\ isProcessing' = FALSE
    /\ retryCount' = 0
    /\ abortController' = NoCtrl
    /\ lastRequestAge' = THROTTLE_MS
    /\ inputText' = ""
    /\ controlsDisabled' = FALSE
    /\ authModalOpen' = FALSE
    /\ authError' = Null
    /\ chains' = {}
    /\ timeoutTimers' = {}
    /\ nextFileId' = 1
    /\ threadFromBackend' = FALSE
    /\ authPending' = "none"
    /\ authHideTimer' = FALSE
    /\ historyVisible' = FALSE
    /\ historyList' = {}
    /\ historyTimer' = FALSE
    /\ threadLoads' = {}
    /\ modalOpen' = FALSE
    /\ modalCallback' = NoCallback
    /\ modalCloseTimer' = FALSE
    /\ threadOps' = {}
    /\ confirmDisabled' = FALSE
    /\ sinceNewSession' = FALSE
    /\ UNCHANGED isOnline

(* ------------------------------------------------------------------ *)
(* File staging                                                       *)
(* ------------------------------------------------------------------ *)
\* files.forEach(...) of handleFileStage: each file that passes both checks is
\* pushed with a new id
RECURSIVE StageEach(_, _, _)
StageEach(staged, next, files) ==
    IF files = <<>> THEN [staged |-> staged, next |-> next, msgs |-> <<>>]
    ELSE LET file == Head(files)
             skip == TooLarge(file) \/ Unsupported(file)
             rest == IF skip
                     THEN StageEach(staged, next, Tail(files))
                     ELSE StageEach(Append(staged, [id |-> next, file |-> file]),
                                    next + 1, Tail(files))
         IN IF TooLarge(file)
            THEN [rest EXCEPT !.msgs = <<"too large.">> \o @]
            ELSE IF Unsupported(file)
            THEN [rest EXCEPT !.msgs = <<"unsupported.">> \o @]
            ELSE rest

\* 'change' on dom.fileUploadInput with the chosen files
HandleFileStage(files) ==
    LET r == IF TooManyFiles(stagedFiles, files)
             THEN [staged |-> stagedFiles, next |-> nextFileId, msgs |-> <<"Max 10 files.">>]
             ELSE StageEach(stagedFiles, nextFileId, files)
    IN /\ stagedFiles' = r.staged
       /\ nextFileId' = r.next
       /\ ev' = Ev("fileStage", 0, r.msgs, FALSE)
       /\ UNCHANGED <<sessionVars, authModalVars, threadVars, isProcessing,
                      retryCount, abortController, isOnline, lastRequestAge, inputText,
                      controlsDisabled, chains, timeoutTimers, pageVars>>

\* a removal that drops the first staged file, whatever id it is given
WithoutFile_First(staged, id) == IF staged = <<>> THEN staged ELSE Tail(staged)
\* state.stagedFiles.filter(f => f.id !== id)
WithoutFile(staged, id) == SelectSeq(staged, LAMBDA f : f.id # id)

\* click on the remove button of the chip of file id
HandleFileRemove(id) ==
    /\ stagedFiles' = WithoutFile(stagedFiles, id)
    /\ ev' = Ev("fileRemove", 0, <<>>, FALSE)
    /\ UNCHANGED <<sessionVars, authModalVars, nextFileId, threadVars, isProcessing,
                   retryCount, abortController, isOnline, lastRequestAge, inputText,
                   controlsDisabled, chains, timeoutTimers, pageVars>>

\* the selections the user makes in the file dialog: one file, a mixed selection,
\* several files at once, more than MAX_FILES at once
Repeat(file, n) == [i \in 1..n |-> file]
StageBatches ==
    {<<FileA>>, <<FileBig, FileA, FileExe>>, Repeat(FileA, 4), Repeat(FileA, MAX_FILES + 1)}

FileStage ==
    \E files \in StageBatches :
        /\ StageEach(stagedFiles, nextFileId, files).next - 1 <= MaxFileIds
        /\ HandleFileStage(files)

FileRemove ==
    \E i \in 1..Len(stagedFiles) : HandleFileRemove(stagedFiles[i].id)

(* ------------------------------------------------------------------ *)
(* The orchestration model: the chat handlers under every interleaving *)
(* of their events, with the history of an authenticated session      *)
(* listed as soon as the page has loaded (the session model below has *)
(* the history requests under every interleaving)                     *)
(* ------------------------------------------------------------------ *)
\* the GET /api/history sent by the page load is answered before any other event
HistoryLoaded ==
    /\ ev.op = "init"
    /\ HistoryResponse("threads", TRUE)

Next ==
    \/ Submit
    \/ EnterKey
    \/ \E c \in chains, status \in Statuses : ChatResponse(c, status)
    \/ \E c \in chains, parsed \in BOOLEAN, tid \in ThreadIds \cup {Null} :
          ChatBody(c, parsed, tid)
    \/ \E c \in chains : NetworkError(c)
    \/ \E k \in timeoutTimers : TimeoutFire(k)
    \/ \E c \in chains : RateLimitTimer(c)
    \/ \E c \in chains : RetryTimer(c)
    \/ HandleNewSession
    \/ HandleLogout
    \/ \E t \in ThreadIds : LoadThread(t)
    \/ \E text \in Inputs : TypeInput(text)
    \/ OnlineChange
    \/ Tick
    \/ HistoryLoaded

Spec == Init /\ [][Next]_vars

(* ------------------------------------------------------------------ *)
(* The staging model: the file events, and the handlers that clear    *)
(* the staged files                                                   *)
(* ------------------------------------------------------------------ *)
NextFiles ==
    \/ FileStage
    \/ FileRemove
    \/ Submit
    \/ HandleNewSession
    \/ HandleLogout
    \/ Tick

FileSpec == Init /\ [][NextFiles]_vars

(* ------------------------------------------------------------------ *)
(* The composing model: a message is typed, a few files are staged,   *)
(* and the submission is sent, answered, retried or cancelled         *)
(* ------------------------------------------------------------------ *)
\* the selections of the composing model: one file, or five of which three are
\* refused (a type that is not allowed, a size over the limit, a name without dot)
ComposeBatches == {<<FileA>>, <<FileB, FileExe, FileBig, FileNoExt, FileA>>}

ComposeStage ==
    \E files \in ComposeBatches :
        /\ StageEach(stagedFiles, nextFileId, files).next - 1 <= MaxComposeIds
        /\ HandleFileStage(files)

\* the chat answers of the composing model: success, and a status that is retried
ComposeStatuses == {200, 503}

\* handleFileRemove with an id that is not staged (one that was, or one never
\* handed out)
StaleRemove ==
    \E id \in 1..MaxComposeIds :
        /\ \A i \in 1..Len(stagedFiles) : stagedFiles[i].id # id
        /\ HandleFileRemove(id)

NextCompose ==
    \/ ComposeStage
    \/ FileRemove
    \/ StaleRemove
    \/ \E text \in Inputs : TypeInput(text)
    \/ Submit
    \/ EnterKey
    \/ Tick
    \/ \E c \in chains, status \in ComposeStatuses : ChatResponse(c, status)
    \/ \E c \in chains : ChatBody(c, TRUE, Null)
    \/ \E c \in chains : RetryTimer(c)
    \/ HandleNewSession
    \/ HandleLogout

ComposeSpec == Init /\ [][NextCompose]_vars

(* ------------------------------------------------------------------ *)
(* The thread model: the threads of an authenticated session are      *)
(* listed, selected, renamed and deleted while a message is sent      *)
(* ------------------------------------------------------------------ *)
NextThread ==
    \/ HistoryLoaded
    \/ \E t \in ThreadIds : LoadThread(t)
    \/ \E type \in {"rename", "delete"}, t \in ThreadIds : OpenModal(type, t)
    \/ CloseModal
    \/ \E last \in BOOLEAN : ModalCloseTimerFire(last)
    \/ ConfirmClick
    \/ \E o \in threadOps, ok \in BOOLEAN : RenameResponse(o, ok)
    \/ \E o \in threadOps, ok \in BOOLEAN : DeleteResponse(o, ok)
    \/ TypeInput("hi")
    \/ Submit
    \/ \E c \in chains : ChatResponse(c, 200)
    \/ \E c \in chains, tid \in ThreadIds : ChatBody(c, TRUE, tid)

ThreadSpec == Init /\ [][NextThread]_vars

(* ------------------------------------------------------------------ *)
(* The voice-enabled revision (unnamed/part_002): its chat request,   *)
(* its cancellation, its timeout timer and its file staging, on the   *)
(* same state fields                                                  *)
(* ------------------------------------------------------------------ *)
\* what the handlers of the revision modelled here leave alone
voiceRest == <<sessionVars, authModalVars, pageVars, retryCount, isOnline,
               threadFromBackend>>

\* loadSession of the revision, for a visitor without a stored session: the guest id
\* is stored under KEYS.USER_ID
VoiceInit ==
    /\ currentUserId = GuestUser(1)
    /\ authToken = Null
    /\ storage = [token |-> Null, userId |-> GuestUser(1), email |-> Null,
                  guestId |-> NullUser]
    /\ historyPending = FALSE
    /\ ev = Ev("init", 0, <<>>, FALSE)
    /\ currentThreadId = Null
    /\ stagedFiles = <<>>
    /\ isLoginMode = TRUE
    /\ isProcessing = FALSE
    /\ retryCount = 0
    /\ abortController = NoCtrl
    /\ isOnline = TRUE
    /\ lastRequestAge = THROTTLE_MS
    /\ inputText = ""
    /\ controlsDisabled = FALSE
    /\ authModalOpen = FALSE
    /\ authError = Null
    /\ chains = {}
    /\ timeoutTimers = {}
    /\ nextFileId = 1
    /\ threadFromBackend = FALSE
    /\ authPending = "none"
    /\ authHideTimer = FALSE
    /\ historyVisible = FALSE
    /\ historyList = {}
    /\ historyTimer = FALSE
    /\ threadLoads = {}
    /\ modalOpen = FALSE
    /\ modalCallback = NoCallback
    /\ modalCloseTimer = FALSE
    /\ threadOps = {}
    /\ confirmDisabled = FALSE
    /\ sinceNewSession = FALSE

\* the calls whose fetch, or whose response body, hangs on the signal of controller
\* k: abort() rejects the fetch, or the reading of the body, with an AbortError, and
\* the catch block (which adds no message for it) and the finally block run
VoiceAborted(k) ==
    IF k # NoCtrl THEN {c \in chains : c.pc \in {"fetch", "json"} /\ c.ctrl = k} ELSE {}

\* cancelOngoingRequest of the revision: no timer is cleared
VoiceCancelOngoingRequest ==
    /\ chains' = chains \ VoiceAborted(abortController)
    /\ abortController' = NoCtrl
    /\ isProcessing' = FALSE
    /\ controlsDisabled' = FALSE
    /\ UNCHANGED timeoutTimers

\* the chat POST of the revision: no email is appended
VoiceRequest(message) == [Request(message) EXCEPT !.email = Null]

\* handleChatSubmit and sendChatRequest of the revision, up to the await fetch(...)
VoiceHandleChatSubmit ==
    LET message == Trim(inputText)
        hasFiles == Len(stagedFiles) > 0
    IN
    IF ~isOnline THEN
        /\ ev' = Ev("submit", 0, <<"No internet connection.">>, FALSE)
        /\ UNCHANGED <<voiceRest, fileVars, currentThreadId, lastRequestAge, inputText,
                       isProcessing, controlsDisabled, abortController, chains,
                       timeoutTimers>>
    ELSE IF isProcessing THEN
        /\ VoiceCancelOngoingRequest
        /\ ev' = Ev("submit", 0, <<>>, FALSE)
        /\ UNCHANGED <<voiceRest, fileVars, currentThreadId, lastRequestAge, inputText>>
    ELSE IF (message = "" /\ ~hasFiles) \/ Throttled THEN
        /\ ev' = Ev("submit", 0, <<>>, FALSE)
        /\ UNCHANGED <<voiceRest, fileVars, currentThreadId, lastRequestAge, inputText,
                       isProcessing, controlsDisabled, abortController, chains,
                       timeoutTimers>>
    ELSE
        /\ Cardinality(chains) < MaxChains
        /\ (\E i \in 1..(2 * MaxChains + 1) : i \notin UsedCtrls)
        /\ lastRequestAge' = 0
        /\ chains' = chains \cup
              {[cid |-> NewCid, pc |-> "fetch", message |-> message,
                hasFiles |-> hasFiles, ctrl |-> NewCtrl, status |-> 0, attempts |-> 1,
                delay |-> 0]}
        /\ inputText' = ""
        /\ stagedFiles' = <<>>
        /\ isProcessing' = TRUE
        /\ controlsDisabled' = TRUE
        /\ abortController' = NewCtrl
        /\ timeoutTimers' = timeoutTimers \cup {NewCtrl}
        /\ ev' = [Ev("submit", 0, <<>>, TRUE) EXCEPT !.req = <<VoiceRequest(message)>>,
                                                !.user = UserMessages(message)]
        /\ UNCHANGED <<voiceRest, nextFileId, currentThreadId>>

\* fetch resolves: clearTimeout(timeoutId); state.abortController stays as it is
VoiceChatResponse(c, status) ==
    /\ c \in chains
    /\ c.pc = "fetch"
    /\ timeoutTimers' = timeoutTimers \ {c.ctrl}
    /\ UNCHANGED <<voiceRest, fileVars, currentThreadId, lastRequestAge, inputText,
                   abortController>>
    /\ IF status = 402 THEN
           /\ chains' = chains \ {c}
           /\ Finally
           /\ ev' = EvOf(c, "response", status, <<"Limit reached. Please sign in.">>)
       ELSE IF ~ResponseOk(status) THEN
           /\ chains' = chains \ {c}
           /\ Finally
           /\ ev' = EvOf(c, "response", status, <<"Error: ...">>)
       ELSE
           /\ chains' = (chains \ {c}) \cup {[c EXCEPT !.pc = "json", !.status = status]}
           /\ ev' = EvOf(c, "response", status, <<>>)
           /\ UNCHANGED <<isProcessing, controlsDisabled>>

\* await response.json() settles
VoiceChatBody(c, parsed, tid) ==
    /\ c \in chains
    /\ c.pc = "json"
    /\ chains' = chains \ {c}
    /\ Finally
    /\ currentThreadId' = IF parsed /\ tid # Null /\ ~Truthy(currentThreadId)
                           THEN tid ELSE currentThreadId
    /\ ev' = EvOf(c, "body", c.status, IF parsed THEN <<"ai">> ELSE <<"Error: ...">>)
    /\ UNCHANGED <<voiceRest, fileVars, lastRequestAge, inputText, abortController,
                   timeoutTimers>>

\* fetch rejects with a network failure: the catch block clears no timer
VoiceNetworkError(c) ==
    /\ c \in chains
    /\ c.pc = "fetch"
    /\ chains' = chains \ {c}
    /\ Finally
    /\ ev' = EvOf(c, "networkError", 0, <<"Error: ...">>)
    /\ UNCHANGED <<voiceRest, fileVars, currentThreadId, lastRequestAge, inputText,
                   abortController, timeoutTimers>>

\* the REQUEST_TIMEOUT_MS timer armed for the request of controller k fires:
\* state.abortController?.abort()
VoiceTimeoutFire(k) ==
    /\ k \in timeoutTimers
    /\ timeoutTimers' = timeoutTimers \ {k}
    /\ chains' = chains \ VoiceAborted(abortController)
    /\ isProcessing' = IF VoiceAborted(abortController) # {} THEN FALSE ELSE isProcessing
    /\ controlsDisabled' = IF VoiceAborted(abortController) # {} THEN FALSE
                           ELSE controlsDisabled
    /\ ev' = [Ev("timeout", 0, <<>>, FALSE) EXCEPT !.attempts = k]
    /\ UNCHANGED <<voiceRest, fileVars, currentThreadId, lastRequestAge, inputText,
                   abortController>>

\* handleNewSession of the revision
VoiceHandleNewSession ==
    /\ VoiceCancelOngoingRequest
    /\ currentThreadId' = Null
    /\ stagedFiles' = <<>>
    /\ ev' = [Ev("newSession", 0, <<>>, FALSE) EXCEPT !.cleared = TRUE]
    /\ UNCHANGED <<voiceRest, nextFileId, lastRequestAge, inputText>>

\* handleFileStage of the revision: every chosen file is pushed with a new id
VoiceHandleFileStage(files) ==
    /\ stagedFiles' = stagedFiles \o
          [i \in 1..Len(files) |-> [id |-> nextFileId + i - 1, file |-> files[i]]]
    /\ nextFileId' = nextFileId + Len(files)
    /\ ev' = Ev("fileStage", 0, <<>>, FALSE)
    /\ UNCHANGED <<voiceRest, currentThreadId, isProcessing, abortController,
                   lastRequestAge, inputText, controlsDisabled, chains, timeoutTimers>>

\* the selections of the revision's model: one file, more than MAX_FILES at once
VoiceBatches == {<<FileExe>>, Repeat(FileA, MAX_FILES + 1)}

VoiceFileStage ==
    \E files \in VoiceBatches :
        /\ nextFileId + Len(files) - 1 <= MaxFileIds
        /\ VoiceHandleFileStage(files)

\* click on the button of the chip of a staged file
VoiceFileRemove ==
    \E i \in 1..Len(stagedFiles) :
        /\ stagedFiles' = WithoutFile(stagedFiles, stagedFiles[i].id)
        /\ ev' = Ev("fileRemove", 0, <<>>, FALSE)
        /\ UNCHANGED <<voiceRest, nextFileId, currentThreadId, isProcessing,
                       abortController, lastRequestAge, inputText, controlsDisabled,
                       chains, timeoutTimers>>

\* the requests of the revision under every interleaving of their events
NextVoice ==
    \/ VoiceHandleChatSubmit
    \/ TypeInput("hi")
    \/ Tick
    \/ \E c \in chains, status \in {200, 402, 500} : VoiceChatResponse(c, status)
    \/ \E c \in chains, parsed \in BOOLEAN, tid \in {"T1", Null} :
          VoiceChatBody(c, parsed, tid)
    \/ \E c \in chains : VoiceNetworkError(c)
    \/ \E k \in timeoutTimers : VoiceTimeoutFire(k)
    \/ VoiceHandleNewSession

VoiceSpec == VoiceInit /\ [][NextVoice]_vars

\* the staging of the revision: file-stage, file-remove, send and new-session
NextVoiceFiles ==
    \/ VoiceFileStage
    \/ VoiceFileRemove
    \/ VoiceHandleChatSubmit
    \/ VoiceHandleNewSession
    \/ Tick

VoiceFileSpec == VoiceInit /\ [][NextVoiceFiles]_vars

(* ------------------------------------------------------------------ *)
(* The session model: page load, login, sign-up, logout and reload    *)
(* under every interleaving with the chat submissions and the chat    *)
(* answers that touch the session                                     *)
(* ------------------------------------------------------------------ *)
\* the chat answers that matter to the session: success, expired session, quota
SessionStatuses == {200, 401, 402}

NextSession ==
    \/ Submit
    \/ TypeInput("hi")
    \/ Tick
    \/ \E c \in chains, status \in SessionStatuses : ChatResponse(c, status)
    \/ \E c \in chains, tid \in ThreadIds : ChatBody(c, TRUE, tid)
    \/ HandleNewSession
    \/ HandleLogout
    \/ OpenLoginModal
    \/ HideAuthModal
    \/ \E last \in BOOLEAN : AuthHideTimerFire(last)
    \/ ToggleAuthMode
    \/ \E filled \in BOOLEAN : HandleAuthSubmit(filled)
    \/ \E body \in {"credentials", "plain"} : AuthResponseOk(body)
    \/ AuthResponseFail
    \/ Reload

SessionSpec == Init /\ [][NextSession]_vars

(* ------------------------------------------------------------------ *)
(* The history model: the history and thread requests under every     *)
(* interleaving of thread selection, rename and delete confirmation,  *)
(* logout and the handling of an expired session                      *)
(* ------------------------------------------------------------------ *)
NextHistory ==
    \/ Submit
    \/ TypeInput("hi")
    \/ Tick
    \/ \E c \in chains : ChatResponse(c, 401)
    \/ HandleLogout
    \/ LoadThread("T1")
    \/ \E outcome \in HistoryOutcomes, last \in BOOLEAN : HistoryResponse(outcome, last)
    \/ VisibilityChange
    \/ \E type \in {"rename", "delete"}, t \in ThreadIds : OpenModal(type, t)
    \/ CloseModal
    \/ \E last \in BOOLEAN : ModalCloseTimerFire(last)
    \/ ConfirmClick
    \/ RenameEnterKey
    \/ \E o \in threadOps, ok \in BOOLEAN : RenameResponse(o, ok)
    \/ \E o \in threadOps, ok \in BOOLEAN : DeleteResponse(o, ok)

HistorySpec == Init /\ [][NextHistory]_vars

(* ------------------------------------------------------------------ *)
(* The thread-loading model: threads of the history are selected one   *)
(* after the other while their messages arrive in any order, and a     *)
(* message is sent meanwhile                                           *)
(* ------------------------------------------------------------------ *)
NextLoad ==
    \/ HistoryLoaded
    \/ \E t \in ThreadIds : LoadThread(t)
    \/ \E t \in threadLoads, outcome \in ThreadOutcomes, last \in BOOLEAN :
          ThreadLoaded(t, outcome, last)
    \/ TypeInput("hi")
    \/ Submit
    \/ Tick
    \/ \E c \in chains : ChatResponse(c, 200)
    \/ \E c \in chains : ChatBody(c, TRUE, Null)

LoadSpec == Init /\ [][NextLoad]_vars

(* ------------------------------------------------------------------ *)
(* The revision that retries transport failures (part_001): its        *)
(* handleChatSubmit, cancelOngoingRequest, handleNewSession and the    *)
(* try block of its sendChatRequest are statement for statement those  *)
(* of main.js; its catch block retries a network error                 *)
(* ------------------------------------------------------------------ *)
\* fetch rejects with a TypeError (not an AbortError); recognised: its message
\* holds 'Failed to fetch' or 'NetworkError' (the text is the browser's: Chrome
\* and Firefox say so, Safari says 'Load failed')
ConnectionLost(c, recognised) ==
    /\ c \in chains
    /\ c.pc = "fetch"
    /\ timeoutTimers' = timeoutTimers \ {c.ctrl}
    /\ abortController' = NoCtrl
    /\ IF ~recognised THEN
           /\ chains' = chains \ {c}
           /\ Finally
           /\ ev' = EvOf(c, "networkError", 0, <<"Error: ...">>)
           /\ UNCHANGED retryCount
       ELSE IF MayRetry THEN
           /\ retryCount' = retryCount + 1
           /\ chains' = (chains \ {c}) \cup
                 {[c EXCEPT !.pc = "retryWait", !.delay = RetryDelay(retryCount + 1)]}
           /\ ev' = EvOf(c, "networkError", 0,
                       <<CASE retryCount = 0 -> "Connection lost. Retrying (1/3)..."
                           [] retryCount = 1 -> "Connection lost. Retrying (2/3)..."
                           [] OTHER -> "Connection lost. Retrying (3/3)...">>)
           /\ UNCHANGED <<isProcessing, controlsDisabled>>
       ELSE
           /\ retryCount' = 0
           /\ chains' = chains \ {c}
           /\ Finally
           /\ ev' = EvOf(c, "networkError", 0, <<"Connection failure. Check internet.">>)
    /\ UNCHANGED <<sessionVars, authModalVars, fileVars, threadVars, isOnline,
                   lastRequestAge, inputText, pageVars>>

NextRetry ==
    \/ TypeInput("hi")
    \/ Submit
    \/ Tick
    \/ \E c \in chains, status \in {200, 503, 504} : ChatResponse(c, status)
    \/ \E c \in chains : ChatBody(c, TRUE, Null)
    \/ \E c \in chains, recognised \in BOOLEAN : ConnectionLost(c, recognised)
    \/ \E c \in chains : RetryTimer(c)
    \/ \E k \in timeoutTimers : TimeoutFire(k)
    \/ HandleNewSession

RetrySpec == Init /\ [][NextRetry]_vars

(* ------------------------------------------------------------------ *)
(* The orchestration model with its scheduling: a timer that is armed *)
(* fires, and the body of a response that has arrived is read         *)
(* ------------------------------------------------------------------ *)
FairSpec ==
    /\ Init
    /\ [][Next]_vars
    /\ WF_vars(\E k \in timeoutTimers : TimeoutFire(k))
    /\ WF_vars(\E c \in chains : RetryTimer(c))
    /\ WF_vars(\E c \in chains : RateLimitTimer(c))
    /\ WF_vars(\E c \in chains, parsed \in BOOLEAN, tid \in ThreadIds \cup {Null} :
                  ChatBody(c, parsed, tid))

(* ------------------------------------------------------------------ *)
(* Properties                                                         *)
(* ------------------------------------------------------------------ *)
Idle == ~isProcessing /\ ~controlsDisabled
PendingFetches == {c \in chains : c.pc = "fetch"}
Unsettled == {c \in chains : c.pc \in {"fetch", "json"}}
\* the POSTs a submission may make: the first and MAX_RETRY_ATTEMPTS retries
MaxPosts == 1 + MAX_RETRY_ATTEMPTS

\* C1: at most one chat request is in flight at any time: no chat fetch is started
\* while an earlier one is pending (or its response is still being read).
C1_OneChatInFlight == Cardinality(Unsettled) <= 1
\* a retry has just started the second fetch of a submission
C1_Witness ==
    /\ ev.op = "retry"
    /\ ev.posted
    /\ \E c \in PendingFetches : c.attempts = 2

\* C2: every accepted submission eventually returns the client to idle
\* (isProcessing false, controls enabled), given that timers fire and bodies are read.
C2_EventuallyIdle == isProcessing ~> Idle
\* a handler has reset state.retryCount while a submission waited for its retry timer
RetryCountResetInWait ==
    /\ ev.op \in {"newSession", "logout"}
    /\ \E c \in chains : c.pc = "retryWait"
\* the client does return to idle on every run where such resets stop
IdleUnlessRetryCountReset == (<>[]~RetryCountResetInWait) => (isProcessing ~> Idle)

\* C3, read over every 5xx status and the timeout: a chat request that gets any 5xx response, or is aborted by the
\* timeout timer, with fewer than MAX_RETRY_ATTEMPTS retries made, is sent again
\* (its submission is left waiting for the retry timer).
C3_AnyServerErrorRetried ==
    ( /\ ev.attempts >= 1
      /\ ev.attempts - 1 < MAX_RETRY_ATTEMPTS
      /\ \/ ev.op = "response" /\ ev.status >= 500
         \/ ev.op = "timeout" /\ ev.msgs # <<>> )
    => \E c \in chains : c.pc = "retryWait"

\* C3, for the statuses the code retries: a chat request that gets a 503 or 504
\* response with fewer than MAX_RETRY_ATTEMPTS retries made is left waiting for its
\* retry timer (RetryTimer sends it again), and a
\* submission that waits for its retry timer is sent again; another 5xx response
\* and a timeout end the submission.
C3_BusyRetried ==
    /\ [](( /\ ev.op = "response"
            /\ ev.status \in {503, 504}
            /\ ev.attempts - 1 < MAX_RETRY_ATTEMPTS )
          => \E c \in chains : c.pc = "retryWait" /\ c.attempts = ev.attempts)
    /\ [](( \/ ev.op = "body" /\ ev.status >= 500
            \/ ev.op = "timeout" /\ ev.msgs # <<>> )
          => chains = {})
    /\ ((\E c \in chains : c.pc = "retryWait") ~> (ev.op = "retry" /\ ev.posted))
\* a 504 has been answered by a second POST
C3_Witness ==
    /\ ev.op = "response"
    /\ ev.status = 504
    /\ \E c \in chains : c.pc = "retryWait" /\ c.attempts = 2

\* C4: one submission causes at most 1 + MAX_RETRY_ATTEMPTS chat POSTs, whatever
\* handlers run while it waits between attempts.
C4_AtMostFourPosts == \A c \in chains : c.attempts <= MaxPosts

\* C5: the wait before the k-th retry of a submission is k * RETRY_DELAY_MS
\* (k: the POSTs the submission has made so far).
C5_LinearDelays ==
    \A c \in chains : c.pc = "retryWait" => c.delay = c.attempts * RETRY_DELAY_MS

\* C6: after a 401 the session is cleared (no token in state or storage, no user id
\* or email in storage, a guest identity that is the stored guest id), the auth
\* modal is open in login mode with the session-expired message, nothing is
\* retried and the client is idle.
C6_SessionExpired ==
    (ev.op = "response" /\ ev.status = 401) =>
        /\ authToken = Null
        /\ storage.token = Null
        /\ storage.userId = NullUser
        /\ storage.email = Null
        /\ currentUserId.kind = "guest_"
        /\ currentUserId = storage.guestId
        /\ authModalOpen
        /\ isLoginMode
        /\ authError = "Session expired. Log in again."
        /\ chains = {}
        /\ timeoutTimers = {}
        /\ Idle
\* a 401 has answered the retry of a submission and left a new guest identity
C6_Witness ==
    /\ ev.op = "response"
    /\ ev.status = 401
    /\ ev.attempts = 2
    /\ currentUserId = GuestUser(2)

\* C7: a 402 or a 429 shows a message and stops the submission: the session
\* (authToken, currentUserId, currentThreadId) is as before, no POST follows
\* (the only step left to the submission is the end of the 3 s wait after a 429),
\* and the client ends idle.
C7_QuotaAndRateLimitStop ==
    [][\A c \in chains :
        /\ (ChatResponse(c, 402) \/ ChatResponse(c, 429)) =>
              /\ ev'.msgs # <<>>
              /\ UNCHANGED <<authToken, currentUserId, currentThreadId>>
              /\ \A d \in chains' : d.pc = "wait429"
        /\ ChatResponse(c, 402) => (chains' = chains \ {c} /\ Idle')
        /\ c.pc = "wait429" =>
              \/ c \in chains'
              \/ /\ RateLimitTimer(c)
                 /\ chains' = chains \ {c}
                 /\ ~ev'.posted
                 /\ Idle'
                 /\ UNCHANGED <<authToken, currentUserId, currentThreadId>>
      ]_vars
\* the wait after a 429 has ended
C7_Witness ==
    /\ ev.op = "rateLimitTimer"
    /\ chains = {}
    /\ Idle

\* C8: a pending chat fetch has its timeout timer live; when the timer fires the
\* fetch is aborted, "Request timed out" is shown and the client is idle.
C8_TimeoutAborts ==
    /\ [](\A c \in PendingFetches : c.ctrl \in timeoutTimers)
    /\ [][\A k \in timeoutTimers :
            (TimeoutFire(k) /\ FetchesOn(k) # {}) =>
                /\ chains' \cap FetchesOn(k) = {}
                /\ \A d \in chains' : d.pc # "fetch"
                /\ ev'.msgs = <<"Request timed out">>
                /\ Idle'
         ]_vars
\* the timer of a retry attempt has fired
C8_Witness ==
    /\ ev.op = "timeout"
    /\ ev.msgs = <<"Request timed out">>
    /\ ev.attempts = 2
    /\ Idle

\* C9: once currentThreadId holds an id from a chat response it changes only
\* through new session, load thread or logout (the click, or the 401 handling).
C9_ThreadIdImmutable ==
    [][(threadFromBackend /\ currentThreadId' # currentThreadId) =>
          \/ HandleNewSession
          \/ HandleLogout
          \/ \E t \in ThreadIds : LoadThread(t)
          \/ \E c \in chains : ChatResponse(c, 401)
      ]_vars

\* C10: state.stagedFiles.length <= CONFIG.MAX_FILES in every reachable state.
C10_StagedWithinMax == Len(stagedFiles) <= MAX_FILES
\* a selection has been refused with MAX_FILES files staged
C10_Witness ==
    /\ Len(stagedFiles) = MAX_FILES
    /\ ev.op = "fileStage"
    /\ ev.msgs = <<"Max 10 files.">>

\* C11: state.abortController is the handle of the outstanding chat request: while
\* a chat fetch is pending it is the controller whose signal that fetch uses, and
\* while none is pending it is null.
C11_ControllerTracksFetch ==
    /\ \A c \in PendingFetches : abortController # NoCtrl /\ abortController = c.ctrl
    /\ (PendingFetches = {}) => abortController = NoCtrl
\* a response has arrived and its body is still being read: no fetch is pending
C11_Witness ==
    /\ ev.op = "response"
    /\ \E c \in chains : c.pc = "json"
    /\ abortController = NoCtrl

\* C12: every chat POST carries user_id = state.currentUserId as it is when the
\* request is built, which is a guest id or an account id (never null, never
\* absent), and it has an Authorization header exactly when state.authToken is not
\* null, with that token.
C12_PostCarriesSession ==
    ev.posted =>
        /\ ev.req[1].user_id = currentUserId
        /\ currentUserId.kind \in {"guest_", "user"}
        /\ (ev.req[1].token = NoHeader) <=> (authToken = Null)
        /\ authToken # Null => ev.req[1].token = authToken
\* the session holds the fields an auth response did not have (C16): undefined,
\* or after a reload the string localStorage stored for undefined
SessionOfMissingFields == currentUserId \in {UndefinedUser, UndefinedStrUser}
\* the only way into such a session is the response of a sign-up request that is
\* handled as the response of a login
MissingFieldsOnlyByMismatch ==
    [][(~SessionOfMissingFields /\ SessionOfMissingFields') =>
          /\ authPending = "/auth/signup"
          /\ isLoginMode
          /\ AuthResponseOk("plain")
      ]_vars
\* every other chat POST carries the session
PostCarriesSessionOtherwise == ~SessionOfMissingFields => C12_PostCarriesSession
\* a chat POST of an authenticated session, with its bearer token
PostCarriesSessionSeen ==
    /\ ev.posted
    /\ authToken = "tok"
    /\ ev.req[1].token = "tok"
    /\ ev.req[1].user_id = AccountUser

\* C13: every request to the history and thread endpoints (GET /api/history, GET,
\* PATCH and DELETE /api/threads/{id}) carries the bearer token of an authenticated
\* session: none is sent while state.authToken is null.
ThreadEndpoints ==
    {"GET /api/history", "GET /api/threads", "PATCH /api/threads", "DELETE /api/threads"}
C13_ThreadRequestsAuthenticated ==
    \A i \in DOMAIN ev.api :
        ev.api[i].endpoint \in ThreadEndpoints =>
            /\ authToken # Null
            /\ ev.api[i].token = authToken
\* fetchHistory, which tests the token before it sends, keeps to it
HistoryRequestsAuthenticated ==
    \A i \in DOMAIN ev.api :
        ev.api[i].endpoint = "GET /api/history" =>
            /\ authToken # Null
            /\ ev.api[i].token = authToken
\* a rename confirmed in an authenticated session sends its PATCH with the token
ThreadRequestSeen ==
    /\ ev.op = "confirm"
    /\ ev.api # <<>>
    /\ ev.api[1].endpoint = "PATCH /api/threads"
    /\ ev.api[1].token = "tok"

\* C14: loadSession resolves the identity from storage: with a stored token and a
\* stored user id the session is authenticated with exactly those; otherwise it is
\* a guest session (no token) whose id is the stored guest id if there is one and
\* else a new 'guest_' id that is stored; a guest who reloads the page keeps the
\* same guest id.
StoredAuthenticated == storage.token # Null /\ storage.userId # NullUser
C14_LoadSessionResolves ==
    /\ [](ev.op = "init" =>
            IF StoredAuthenticated
            THEN authToken = storage.token /\ currentUserId = storage.userId
            ELSE /\ authToken = Null
                 /\ currentUserId.kind = "guest_"
                 /\ currentUserId = storage.guestId)
    /\ [][Reload =>
            IF StoredAuthenticated
            THEN /\ authToken' = storage.token
                 /\ currentUserId' = storage.userId
                 /\ storage' = storage
            ELSE /\ authToken' = Null
                 /\ IF storage.guestId # NullUser
                    THEN currentUserId' = storage.guestId /\ storage' = storage
                    ELSE /\ currentUserId'.kind = "guest_"
                         /\ storage' = [storage EXCEPT !.guestId = currentUserId']
         ]_vars
    /\ [][(Reload /\ authToken = Null) => currentUserId' = currentUserId]_vars
\* a guest whose id was stored by a logout has reloaded the page and has that id
C14_Witness ==
    /\ ev.op = "init"
    /\ authToken = Null
    /\ currentUserId = GuestUser(2)
    /\ storage.guestId = GuestUser(2)

\* C15: when handleLogout has returned, state.authToken is null, storage holds no
\* token, no user id and no email, state.currentUserId is a guest id and is the
\* stored guest id, state.currentThreadId is null, no file is staged, and no chat
\* fetch is pending (the one that was has been aborted).
C15_LogoutClearsSession ==
    (ev.op = "logout") =>
        /\ authToken = Null
        /\ storage.token = Null
        /\ storage.userId = NullUser
        /\ storage.email = Null
        /\ currentUserId.kind = "guest_"
        /\ currentUserId = storage.guestId
        /\ currentThreadId = Null
        /\ stagedFiles = <<>>
        /\ PendingFetches = {}
        /\ abortController = NoCtrl
\* a logout has aborted the chat fetch that was pending
C15_Witness ==
    /\ ev.op = "logout"
    /\ ev.msgs = <<"Request cancelled", "Logged out successfully", "Request timed out">>
    /\ chains = {}

\* C16: an auth response is handled as the response of the request that was sent:
\* a success of /auth/login sets state.authToken and state.currentUserId from the
\* response and stores them, a success of /auth/signup authenticates nobody and
\* puts the modal in login mode, whatever happens while the request is pending.
HandledAsSent(body) ==
    /\ authPending = "/auth/login" =>
          /\ authToken' = DataToken(body)
          /\ currentUserId' = DataUser(body)
          /\ storage'.token = authToken'
          /\ storage'.userId = currentUserId'
    /\ authPending = "/auth/signup" =>
          /\ UNCHANGED <<authToken, currentUserId, storage>>
          /\ isLoginMode'
C16_AuthResponseMatchesRequest ==
    [][\A body \in {"credentials", "plain"} :
          AuthResponseOk(body) => HandledAsSent(body)]_vars
\* it is, when state.isLoginMode is at the response what it was at the request
AuthResponseMatchesUnlessModeChanged ==
    [][\A body \in {"credentials", "plain"} :
          (AuthResponseOk(body) /\ authPending = AuthEndpoint) => HandledAsSent(body)]_vars
\* a login has succeeded and authenticated the session
LoginHandledSeen ==
    /\ ev.op = "authResponse"
    /\ ev.msgs = <<"Logged in!">>
    /\ authToken = "tok"
    /\ storage.token = "tok"

\* C17: the session in memory mirrors storage: while state.authToken is not null the
\* stored token is state.authToken and the stored user id is state.currentUserId;
\* while it is null state.currentUserId is the stored guest id and begins with
\* 'guest_'.
C17_SessionMirrorsStorage ==
    IF authToken # Null
    THEN storage.token = authToken /\ storage.userId = currentUserId
    ELSE currentUserId = storage.guestId /\ currentUserId.kind = "guest_"
\* it does in every session that does not hold the missing fields of a response
SessionMirrorsStorageOtherwise ==
    (~SessionOfMissingFields /\ authToken # Undefined) => C17_SessionMirrorsStorage
\* an authenticated session that a login put in memory and in storage
SessionMirrorsStorageSeen ==
    /\ authToken = "tok"
    /\ storage.token = "tok"
    /\ currentUserId = AccountUser
    /\ storage.userId = AccountUser
    /\ ev.op = "authResponse"

\* C18: the first chat POST of an accepted submission carries the query that was
\* typed (trimmed) and exactly the files that were staged, in their order; the
\* staged files are empty when it has been sent, and stay empty until the user
\* stages files again.
C18_FirstPostCarriesStaged ==
    /\ [][(ev'.posted /\ ev'.op \in {"submit", "enter"}) =>
            /\ ev'.req[1].query = Trim(inputText)
            /\ Len(ev'.req[1].files) = Len(stagedFiles)
            /\ \A i \in 1..Len(stagedFiles) : ev'.req[1].files[i] = stagedFiles[i].file
            /\ stagedFiles' = <<>>
         ]_vars
    /\ [][(stagedFiles = <<>> /\ stagedFiles' # <<>>) => ev'.op = "fileStage"]_vars
\* a submission has been sent with a typed message and two files of two kinds
C18_Witness ==
    /\ ev.posted
    /\ ev.op = "submit"
    /\ ev.req[1].query = "hi"
    /\ Len(ev.req[1].files) = 2
    /\ ev.req[1].files[1] # ev.req[1].files[2]
    /\ stagedFiles = <<>>

\* C19: the first chat request sent after handleNewSession has run (by the click, by
\* a logout, or by the deletion of the current thread) carries no thread_id,
\* whatever responses of earlier submissions arrive in between.
C19_NoThreadAfterNewSession ==
    [][(sinceNewSession /\ ev'.posted) => ev'.req[1].thread_id = Null]_vars
\* handleNewSession leaves no thread id, and until the next chat request only the
\* body of an earlier response sets one
ThreadSetOnlyByEarlierBody ==
    /\ [](ev.op \in {"newSession", "logout"} => currentThreadId = Null)
    /\ [][(sinceNewSession /\ sinceNewSession' /\ currentThreadId' \notin {Null, currentThreadId}) =>
            /\ ev'.op = "body"
            /\ \E c \in chains : c.pc = "json"
         ]_vars
\* a submission sent right after New Session ended a conversation with a thread
NewSessionPostSeen ==
    /\ ev.posted
    /\ ev.op = "submit"
    /\ ev.req[1].thread_id = Null
    /\ isProcessing

\* C20: a chat request that fails adds to the chat log the status message of the
\* category of its failure and of no other category: the quota message for a 402,
\* the session-expired prompt for a 401, the rate-limit message for a 429,
\* 'Service unavailable' for a 503/504 with the retries used up, 'Error: ...' for
\* another failure status or a network failure, 'Request timed out' for a timeout,
\* 'Request cancelled' for a cancellation by the user.
CategoryMsgs ==
    {"Free trial limit reached. Please sign in.", "Rate limit exceeded. Waiting 3s...",
     "Service unavailable. Please try again later.", "Error: ...", "Request timed out",
     "Request cancelled"}
\* the status messages among those the last handler run added, in their order
StatusMsgs == SelectSeq(ev.msgs, LAMBDA m : m \in CategoryMsgs)
\* the last handler run cancelled the chat request of the user
UserCancelled ==
    /\ ev.op \in {"submit", "enter", "newSession", "logout", "loadThread", "deleteResponse"}
    /\ \E i \in DOMAIN ev.msgs : ev.msgs[i] = "Request cancelled"
OutcomeMsgsOfResponses ==
    /\ (ev.op = "response" /\ ev.status = 402) =>
          StatusMsgs = <<"Free trial limit reached. Please sign in.">>
    /\ (ev.op = "response" /\ ev.status = 401) =>
          /\ StatusMsgs = <<>>
          /\ authError = "Session expired. Log in again."
    /\ (ev.op = "response" /\ ev.status = 429) =>
          StatusMsgs = <<"Rate limit exceeded. Waiting 3s...">>
    /\ (ev.op = "response" /\ ev.status \in {503, 504} /\ chains = {}) =>
          StatusMsgs = <<"Service unavailable. Please try again later.">>
    /\ (ev.op = "networkError" \/ (ev.op = "body" /\ ev.msgs # <<"ai">>)) =>
          StatusMsgs = <<"Error: ...">>
    /\ (ev.op = "timeout" /\ ev.msgs # <<>>) => StatusMsgs = <<"Request timed out">>
C20_OwnCategoryMessage ==
    /\ OutcomeMsgsOfResponses
    /\ UserCancelled => StatusMsgs = <<"Request cancelled">>
\* a cancellation that aborts a pending fetch adds the message of the timeout too
CancelAddsTimeoutMsg ==
    UserCancelled =>
        \/ StatusMsgs = <<"Request cancelled">>
        \/ StatusMsgs = <<"Request cancelled", "Request timed out">>
\* the retries of a submission are used up and 'Service unavailable' is shown
OutcomeMsgsSeen ==
    /\ ev.op = "response"
    /\ ev.status = 503
    /\ chains = {}
    /\ ev.msgs = <<"Service unavailable. Please try again later.">>

\* C21: handleFileRemove(id) removes from state.stagedFiles exactly the entry with
\* that id: the files before it keep their place, the files after it move up by
\* one, in their order; with an id that is not staged the staged files are as
\* before.
StagedIds == {stagedFiles[i].id : i \in 1..Len(stagedFiles)}
C21_RemoveExactlyOne ==
    [][\A id \in 1..MaxFileIds :
          HandleFileRemove(id) =>
              IF id \notin StagedIds THEN stagedFiles' = stagedFiles
              ELSE \E k \in 1..Len(stagedFiles) :
                      /\ stagedFiles[k].id = id
                      /\ Len(stagedFiles') = Len(stagedFiles) - 1
                      /\ \A i \in 1..(k - 1) : stagedFiles'[i] = stagedFiles[i]
                      /\ \A i \in k..(Len(stagedFiles) - 1) :
                            stagedFiles'[i] = stagedFiles[i + 1]
      ]_vars
\* the second of three staged files has been removed: the first and the third stay
C21_Witness ==
    /\ ev.op = "fileRemove"
    /\ Len(stagedFiles) = 2
    /\ stagedFiles[1].id = 1
    /\ stagedFiles[2].id = 3
    /\ stagedFiles[1].file # stagedFiles[2].file

\* C22: every file in state.stagedFiles passed the staging validation: its size is
\* at most MAX_FILE_SIZE_MB * 1024 * 1024 bytes, and the lower-cased last
\* dot-separated segment of its name, with a dot before it, is an allowed extension.
C22_StagedFilesValid ==
    \A i \in 1..Len(stagedFiles) :
        /\ stagedFiles[i].file.size <= MAX_FILE_SIZE_MB * 1024 * 1024
        /\ WithDot(ToLowerCase(stagedFiles[i].file.name[Len(stagedFiles[i].file.name)]))
              \in ALLOWED_EXTS
\* a selection has been staged in part: the file of exactly the largest size, with
\* an upper-case extension, is staged, and three files were refused
C22_Witness ==
    /\ ev.op = "fileStage"
    /\ ev.msgs = <<"unsupported.", "too large.", "unsupported.">>
    /\ \E i \in 1..Len(stagedFiles) : stagedFiles[i].file = FileB

\* C23: when the DELETE of a thread succeeds and the thread is the current one the
\* conversation is reset (state.currentThreadId null, the messages of the chat log
\* removed); when it succeeds for another thread state.currentThreadId is as
\* before; when it fails (status not OK, transport error) state.currentThreadId,
\* the history list and the chat log are as before.
C23_DeleteOutcomes ==
    [][\A o \in threadOps, ok \in BOOLEAN :
          DeleteResponse(o, ok) =>
              IF ~ok
              THEN /\ UNCHANGED <<currentThreadId, historyList>>
                   /\ ~ev'.cleared
                   /\ ev'.msgs = <<>>
              ELSE IF currentThreadId = o.thread
              THEN currentThreadId' = Null /\ ev'.cleared
              ELSE UNCHANGED currentThreadId
      ]_vars
\* the thread of the running conversation has been deleted while a chat request
\* was pending: the conversation is reset and the request cancelled
C23_Witness ==
    /\ ev.op = "deleteResponse"
    /\ ev.status = 200
    /\ ev.cleared
    /\ currentThreadId = Null
    /\ ev.msgs = <<"Request cancelled", "Conversation deleted", "Request timed out">>
\* the deletion of another thread has succeeded, and one has failed
OtherThreadDeleted ==
    /\ ev.op = "deleteResponse"
    /\ ev.status = 200
    /\ currentThreadId # Null
    /\ ~ev.cleared
DeleteFailed ==
    /\ ev.op = "deleteResponse"
    /\ ev.status = 400
    /\ currentThreadId # Null

\* C24: in the voice-enabled revision (part_002) state.stagedFiles never holds more
\* than CONFIG.MAX_FILES files, for any sequence of file-stage, file-remove, send
\* and new-session events.
C24_VoiceStagedWithinMax == ~(Len(stagedFiles) > MAX_FILES)

\* C25: in the voice-enabled revision (part_002) the timeout timer armed for a chat
\* request aborts only that request: the timer of one request never aborts a
\* later one, whether the earlier request succeeded, failed or was cancelled.
C25_VoiceTimerAbortsOwnRequest ==
    [][\A k \in timeoutTimers :
          VoiceTimeoutFire(k) => \A c \in chains \ chains' : c.ctrl = k]_vars
\* the timer of a request that was answered is cleared with the answer
VoiceTimerClearedByResponse ==
    (ev.op = "response") => \A c \in chains : c.pc = "json" => c.ctrl \notin timeoutTimers
\* the timer of a pending request has fired and aborted it
VoiceTimeoutSeen ==
    /\ ev.op = "timeout"
    /\ ev.attempts = abortController
    /\ chains = {}
    /\ ~isProcessing

\* C26: in main.js the timeout timer armed for one attempt never aborts another
\* attempt or a later submission: every timer is cleared when its own fetch
\* settles, so at most one timer is live, it belongs to the pending fetch, and a
\* timer that fires aborts only the call it was armed for.
C26_TimerBelongsToPendingFetch ==
    /\ [](/\ Cardinality(timeoutTimers) <= 1
          /\ \A k \in timeoutTimers : \E c \in chains : c.pc = "fetch" /\ c.ctrl = k)
    /\ [][\A k \in timeoutTimers :
            TimeoutFire(k) => \A c \in chains \ chains' : c.ctrl = k]_vars
\* the second retry of a submission is pending, and the only live timer is its own
C26_Witness ==
    /\ ev.op = "retry"
    /\ ev.posted
    /\ \E c \in chains : c.pc = "fetch" /\ c.attempts = 3 /\ timeoutTimers = {c.ctrl}

\* the handlers that begin with cancelOngoingRequest: a submit while a submission
\* is processing, New Session, the click on a thread of the history, Logout
CancelEvents == {"submit", "enter", "newSession", "loadThread", "logout"}

\* C27: whenever isProcessing is true the pending submission can be cancelled:
\* after a handler that runs cancelOngoingRequest, isProcessing is false and
\* nothing of the submission is left that is waiting for a response or for a retry
\* (no further chat POST is issued for it).
C27_CancelStopsSubmission ==
    [][(isProcessing /\ isOnline /\ ev'.op \in CancelEvents) =>
          /\ ~isProcessing'
          /\ \A c \in chains' : c.pc \notin {"fetch", "retryWait"}]_vars
\* the cancellation works while the fetch of the submission is pending
CancelStopsPendingFetch ==
    [][(isProcessing /\ isOnline /\ ev'.op \in CancelEvents /\ abortController # NoCtrl) =>
          /\ ~isProcessing'
          /\ \A c \in chains' : c.pc \notin {"fetch", "retryWait"}]_vars
\* a submission was cancelled while its fetch was pending
CancelStopsPendingFetchSeen ==
    /\ ev.op = "newSession"
    /\ ev.msgs = <<"Request cancelled", "Request timed out">>
    /\ ~isProcessing
    /\ chains = {}

\* C28: every retry POST carries the same query and the same files as the first
\* attempt of its submission (hasFiles of a call tells whether the first attempt
\* carried files: it is computed from the staged files the first POST is built of
\* and handed on unchanged to every retry).
C28_RetryCarriesSameRequest ==
    [][\A c \in chains :
          RetryTimer(c) =>
              /\ ev'.req[1].query = c.message
              /\ c.hasFiles <=> (ev'.req[1].files # <<>>)]_vars
\* every retry POST carries the query of the first attempt
RetryCarriesSameQuery ==
    [][\A c \in chains : RetryTimer(c) => ev'.req[1].query = c.message]_vars
\* a submission without files is retried with the same request when no file is
\* staged during the wait
RetryWithoutFilesSame ==
    [][\A c \in chains :
          (RetryTimer(c) /\ ~c.hasFiles /\ stagedFiles = <<>>) =>
              /\ ev'.req[1].query = c.message
              /\ ev'.req[1].files = <<>>]_vars
\* a submission without files has been retried
RetryPostSeen ==
    /\ ev.op = "retry"
    /\ ev.posted
    /\ ev.req[1].query = "hi"
    /\ ev.req[1].files = <<>>

\* C29: each accepted submission adds its user message to the chat log exactly
\* once, however many retries follow: the handler that accepts it adds the
\* message, and no retry adds a user message.
C29_UserMessageOnce ==
    /\ [](((ev.op \in {"submit", "enter"}) /\ ev.posted) => ev.user = <<ev.req[1].query>>)
    /\ [][\A c \in chains : RetryTimer(c) => ev'.user = <<>>]_vars
\* the handler that accepts a submission adds its user message once, and no
\* handler other than a retry adds a user message
UserMessageOnceAtSubmit ==
    /\ ((ev.op \in {"submit", "enter"}) /\ ev.posted) => ev.user = <<ev.req[1].query>>
    /\ (ev.op # "retry" /\ ~ev.posted) => ev.user = <<>>
\* a submission was accepted and its message added
UserMessageSeen ==
    /\ ev.op = "submit"
    /\ ev.user = <<"hi">>

\* C30: 0 <= retryCount <= MAX_RETRY_ATTEMPTS in every state, and retryCount is 0
\* when the first attempt of a new submission is sent.
C30_RetryCountBounded ==
    /\ retryCount \in 0..MAX_RETRY_ATTEMPTS
    /\ ((ev.op \in {"submit", "enter"}) /\ ev.posted) => retryCount = 0
\* the last retry of a submission has been sent with retryCount at its maximum
C30_Witness ==
    /\ ev.op = "retry"
    /\ ev.posted
    /\ retryCount = MAX_RETRY_ATTEMPTS

\* what a throttled submit must leave alone: the input text, the staged files,
\* isProcessing, retryCount and lastRequestTime
ThrottleFrame == <<inputText, stagedFiles, isProcessing, retryCount, lastRequestAge>>

\* C31: the first attempts of two accepted submissions are at least THROTTLE_MS
\* apart, and a submit that arrives less than THROTTLE_MS after the last accepted
\* one sends nothing and leaves the input text, the staged files, isProcessing,
\* retryCount and lastRequestTime unchanged.
C31_ThrottleLeavesState ==
    [][(ev'.op \in {"submit", "enter"}) =>
          /\ ev'.posted => lastRequestAge >= THROTTLE_MS
          /\ lastRequestAge < THROTTLE_MS =>
                (~ev'.posted /\ UNCHANGED ThrottleFrame)]_vars
\* C31 as the code has it: the same, for a submit that arrives while no submission
\* is processing (a submit that finds one processing cancels it, whatever the time)
C31_ThrottleLeavesStateWhenIdle ==
    [][(ev'.op \in {"submit", "enter"}) =>
          /\ ev'.posted => lastRequestAge >= THROTTLE_MS
          /\ lastRequestAge < THROTTLE_MS =>
                /\ ~ev'.posted
                /\ ~isProcessing => UNCHANGED ThrottleFrame]_vars
\* a submit with text and a staged file was refused by the throttle
C31_Witness ==
    /\ ev.op = "submit"
    /\ ev.msgs = <<"Please wait a moment before sending another message">>
    /\ lastRequestAge < THROTTLE_MS
    /\ inputText # ""
    /\ stagedFiles # <<>>
    /\ ~isProcessing

\* every variable but the record of the last handler run
StateButEv ==
    <<sessionVars, authModalVars, fileVars, threadVars, isProcessing, retryCount,
      abortController, isOnline, lastRequestAge, inputText, controlsDisabled,
      chains, timeoutTimers, pageVars>>

\* C32: while state.isOnline is false, handleChatSubmit sends no request and
\* changes no state: it adds the message "No internet connection." and nothing
\* else; the input text, the staged files, isProcessing, abortController and
\* lastRequestTime are unchanged and a pending chat fetch is not aborted.
C32_OfflineSubmitChangesNothing ==
    [][(~isOnline /\ ev'.op \in {"submit", "enter"}) =>
          /\ ~ev'.posted
          /\ ev'.msgs = <<"No internet connection.">>
          /\ ev'.user = <<>>
          /\ ~ev'.cleared
          /\ UNCHANGED StateButEv]_vars
\* a submit arrived offline while a chat fetch was pending and text was typed
C32_Witness ==
    /\ ~isOnline
    /\ ev.op = "submit"
    /\ ev.msgs = <<"No internet connection.">>
    /\ isProcessing
    /\ abortController # NoCtrl
    /\ \E c \in chains : c.pc = "fetch" /\ c.ctrl = abortController

\* C33: whenever the session is a guest session (state.authToken is null) the
\* history section is hidden, and no thread list is rendered into it, however a
\* logout or the handling of a 401 interleaves with the history responses that
\* were requested while the session was authenticated.
C33_GuestHistoryHidden == authToken = Null => ~historyVisible
\* the logout itself hides the history section
LogoutHidesHistory == (ev.op = "logout") => ~historyVisible
\* a logout has hidden a history section that was shown
LogoutHidesHistorySeen ==
    /\ ev.op = "logout"
    /\ authToken = Null
    /\ historyList # {}
    /\ ~historyVisible

\* C34: after any sequence of loadThread calls, once all their responses have
\* been processed, the chat log shows the messages of state.currentThreadId (the
\* thread selected last), whatever order the responses arrive in: the response
\* processed last, if it rendered messages, rendered those of currentThreadId.
C34_ChatShowsCurrentThread ==
    (ev.op = "threadResponse" /\ threadLoads = {} /\ ev.rendered # Null) =>
        ev.rendered = currentThreadId
\* when one thread only is loaded at a time the chat log shows the selected thread
SingleLoadShowsCurrentThread ==
    [][(ev'.op = "threadResponse" /\ threadLoads' = {} /\ Cardinality(threadLoads) = 1
            /\ ev.op = "loadThread" /\ ev'.rendered # Null) =>
          ev'.rendered = currentThreadId']_vars
\* the messages of the selected thread were rendered
SingleLoadSeen ==
    /\ ev.op = "threadResponse"
    /\ ev.rendered = currentThreadId
    /\ currentThreadId = "T2"
    /\ threadLoads = {}

\* C35: processing a loadThread response never removes from the chat log the
\* user message or the typing indicator of a chat submission that was made after
\* that loadThread call and is still pending (a first attempt whose fetch is
\* pending was sent after every loadThread call: loadThread aborts the pending
\* fetch).
C35_LoadKeepsPendingSubmission ==
    [][(ev'.op = "threadResponse" /\ \E c \in chains : c.pc = "fetch" /\ c.attempts = 1)
          => ~ev'.cleared]_vars
\* a failed load leaves the chat log of a pending submission alone
FailedLoadKeepsChatLog ==
    (ev.op = "threadResponse" /\ ev.msgs = <<"Error loading conversation history.">>)
        => ~ev.cleared
\* a load failed while a submission made after it was pending
FailedLoadSeen ==
    /\ ev.op = "threadResponse"
    /\ ev.msgs = <<"Error loading conversation history.">>
    /\ \E c \in chains : c.pc = "fetch" /\ c.attempts = 1

\* a file passes the size check and the extension check
PassesChecks(file) ==
    /\ file.size <= MAX_FILE_SIZE_MB * 1024 * 1024
    /\ WithDot(ToLowerCase(file.name[Len(file.name)])) \in ALLOWED_EXTS
\* the files staged by a step after those that were staged before it
NewlyStaged ==
    [i \in 1..(Len(stagedFiles') - Len(stagedFiles)) |->
        stagedFiles'[Len(stagedFiles) + i].file]

\* C36: if the staged count plus the size of the batch exceeds MAX_FILES,
\* handleFileStage stages none of the batch and leaves state.stagedFiles
\* unchanged; otherwise a file of the batch is staged if and only if it passes the
\* size and extension checks, the staged ones are appended in selection order, and
\* the files staged before are unchanged.
C36_BatchStaging ==
    [][\A files \in StageBatches :
          HandleFileStage(files) =>
              IF Len(stagedFiles) + Len(files) > MAX_FILES
              THEN stagedFiles' = stagedFiles
              ELSE /\ Len(stagedFiles') >= Len(stagedFiles)
                   /\ SubSeq(stagedFiles', 1, Len(stagedFiles)) = stagedFiles
                   /\ NewlyStaged = SelectSeq(files, PassesChecks)]_vars
\* a batch with a file too large and a file of an unsupported type was staged in
\* part after other files
C36_Witness ==
    /\ ev.op = "fileStage"
    /\ ev.msgs = <<"too large.", "unsupported.">>
    /\ Len(stagedFiles) >= 2
    /\ stagedFiles[Len(stagedFiles)].file = FileA

\* C37: while the rename / delete modal is open, state.modalCallback is the action
\* for the thread the modal was last opened for: when the modal is closed and
\* opened again for another thread, at any time relative to the 200 ms timer of
\* closeModal, the modal stays visible with the callback of the second thread (a
\* close timer that fires right after openModal was armed before it).
C37_ModalKeepsLastCallback ==
    [][(ev.op = "openModal" /\ ev'.op = "modalCloseTimer") =>
          /\ modalOpen'
          /\ modalCallback' = modalCallback]_vars
\* openModal itself shows the modal with the callback of its thread
OpenModalSetsCallback ==
    (ev.op = "openModal") => (modalOpen /\ modalCallback # NoCallback /\ ~modalCallback.stale)
\* the modal was opened for the second thread while a close timer was live
OpenModalDuringCloseSeen ==
    /\ ev.op = "openModal"
    /\ modalCloseTimer
    /\ modalCallback = Callback("delete", "T2")

\* C38: in the revision that retries transport failures (part_001) a chat request
\* that fails with a network error is sent again after k * RETRY_DELAY_MS (k: the
\* POSTs its submission has made), the retries share the counter of the 503 / 504
\* retries, so that a submission makes at most 1 + MAX_RETRY_ATTEMPTS attempts over
\* both kinds of failure, and when the attempts are used up the connection-failure
\* message is shown and the client is idle.
C38_NetworkErrorRetried ==
    /\ [](\A c \in chains : c.attempts <= 1 + MAX_RETRY_ATTEMPTS)
    /\ [][\A c \in chains, recognised \in BOOLEAN :
            ConnectionLost(c, recognised) =>
                IF c.attempts < 1 + MAX_RETRY_ATTEMPTS
                THEN \E d \in chains' :
                        /\ d.pc = "retryWait"
                        /\ d.delay = c.attempts * RETRY_DELAY_MS
                ELSE /\ ev'.msgs = <<"Connection failure. Check internet.">>
                     /\ chains' = {}
                     /\ Idle']_vars
\* a network error whose message the catch block recognises is retried while
\* state.retryCount is below MAX_RETRY_ATTEMPTS, after RETRY_DELAY_MS times the
\* new count, and ends the submission with the connection-failure message otherwise
RecognisedErrorRetriedByCount ==
    [][\A c \in chains :
          ConnectionLost(c, TRUE) =>
              IF retryCount < MAX_RETRY_ATTEMPTS
              THEN /\ retryCount' = retryCount + 1
                   /\ \E d \in chains' :
                          d.pc = "retryWait" /\ d.delay = retryCount' * RETRY_DELAY_MS
              ELSE /\ ev'.msgs = <<"Connection failure. Check internet.">>
                   /\ retryCount' = 0
                   /\ Idle']_vars
\* a submission has used up its attempts over both kinds of failure
AttemptsUsedUpSeen ==
    /\ ev.op = "networkError"
    /\ ev.msgs = <<"Connection failure. Check internet.">>
    /\ ev.attempts = 1 + MAX_RETRY_ATTEMPTS
    /\ Idle

====
